---- MODULE Spec2Model ----
(***************************************************************************)
(* Roster extraction of the ICU staffing dashboard (docProcessor):         *)
(* parseRosterFromHtml and the helpers it calls, over a document given as  *)
(* a tree of tables, rows and cells.  A text is a sequence of              *)
(* one-character strings, so that trimming, case folding, substring        *)
(* search, parseInt and date formatting are computed, not assumed.         *)
(***************************************************************************)
EXTENDS Integers, Sequences, FiniteSets, TLC

VARIABLES phase, tables, startRoom, endRoom, tz, today,
          infoTable, contentRows, headerRowIdx, colMap, gridEndIdx,
          result, error,
          dateText, dateOut, cellTexts, keyTexts, keyMap,
          calls,
          gridHeaderIndex, bottomHeaderIndex, maxGridScore, maxBottomScore,
          isLoading, appError, historicalRosters, runs,
          heap, liveRoster, edit,
          value, initialValue, focused, onSaveCalls, keyed

vars == <<phase, tables, startRoom, endRoom, tz, today,
          infoTable, contentRows, headerRowIdx, colMap, gridEndIdx,
          result, error,
          dateText, dateOut, cellTexts, keyTexts, keyMap,
          calls,
          gridHeaderIndex, bottomHeaderIndex, maxGridScore, maxBottomScore,
          isLoading, appError, historicalRosters, runs,
          heap, liveRoster, edit,
          value, initialValue, focused, onSaveCalls, keyed>>

\* The document, the settings and the locals of a call of the parser
parserVars == <<phase, tables, startRoom, endRoom, tz, today,
                infoTable, contentRows, headerRowIdx, colMap, gridEndIdx,
                result, error,
                dateText, dateOut, cellTexts, keyTexts, keyMap>>

\* The locals of the header detection of services/docProcessor.ts
scoreVars == <<gridHeaderIndex, bottomHeaderIndex, maxGridScore, maxBottomScore>>

\* The state of App.tsx that a batch import reads and writes
appVars == <<isLoading, appError, historicalRosters, runs>>

\* The objects behind the roster of AssignmentGrid and the edit made last
gridVars == <<heap, liveRoster, edit>>

\* The state and the props of one EditableCell, with the calls of onSave
cellVars == <<value, initialValue, focused, onSaveCalls, keyed>>

uiVars == <<appVars, gridVars, cellVars>>

\* The state of the rest of the dashboard, which a single call of the parser
\* leaves alone
others == <<calls, scoreVars, uiVars>>

----------------------------------------------------------------------------
(* Characters and JavaScript string primitives                             *)

LowerLetters == <<"a","b","c","d","e","f","g","h","i","j","k","l","m",
                  "n","o","p","q","r","s","t","u","v","w","x","y","z">>
UpperLetters == <<"A","B","C","D","E","F","G","H","I","J","K","L","M",
                  "N","O","P","Q","R","S","T","U","V","W","X","Y","Z">>
DigitChars == <<"0","1","2","3","4","5","6","7","8","9">>

Range(s) == {s[i] : i \in 1..Len(s)}
LowerSet == Range(LowerLetters)
UpperSet == Range(UpperLetters)
DigitSet == Range(DigitChars)

IndexOf(c, s) == CHOOSE i \in 1..Len(s) : s[i] = c

IsLower(c) == c \in LowerSet
IsUpper(c) == c \in UpperSet
IsDigit(c) == c \in DigitSet
IsLetter(c) == IsLower(c) \/ IsUpper(c)
\* \s of a regular expression, and the white space String.prototype.trim removes
IsSpace(c) == c \in {" ", "\t", "\n"}
\* \w of a regular expression
IsWord(c) == IsLetter(c) \/ IsDigit(c) \/ c = "_"

upperChar(c) == IF IsLower(c) THEN UpperLetters[IndexOf(c, LowerLetters)] ELSE c
lowerChar(c) == IF IsUpper(c) THEN LowerLetters[IndexOf(c, UpperLetters)] ELSE c

toUpperCase(s) == [i \in 1..Len(s) |-> upperChar(s[i])]
toLowerCase(s) == [i \in 1..Len(s) |-> lowerChar(s[i])]

SetMin(S) == CHOOSE x \in S : \A y \in S : x <= y
SetMax(S) == CHOOSE x \in S : \A y \in S : y <= x

\* String.prototype.trim
trim(s) ==
  LET keep == {i \in 1..Len(s) : ~IsSpace(s[i])}
  IN  IF keep = {} THEN << >> ELSE SubSeq(s, SetMin(keep), SetMax(keep))

\* s.startsWith(t, p - 1): t occurs in s at (1-based) position p
OccursAt(s, t, p) ==
  /\ p >= 1
  /\ p + Len(t) - 1 <= Len(s)
  /\ \A k \in 1..Len(t) : s[p + k - 1] = t[k]

\* String.prototype.includes
includes(s, t) == \E p \in 1..(Len(s) - Len(t) + 1) : OccursAt(s, t, p)

\* s.replace(/\s/g, '')
RECURSIVE stripSpace(_)
stripSpace(s) ==
  IF s = << >> THEN << >>
  ELSE IF IsSpace(Head(s)) THEN stripSpace(Tail(s))
       ELSE <<Head(s)>> \o stripSpace(Tail(s))

\* Array.prototype.join over texts
RECURSIVE join(_, _)
join(parts, sep) ==
  IF parts = << >> THEN << >>
  ELSE IF Len(parts) = 1 THEN parts[1]
       ELSE parts[1] \o sep \o join(Tail(parts), sep)

\* s.split('\n')
RECURSIVE splitLines(_)
splitLines(s) ==
  IF \A i \in 1..Len(s) : s[i] # "\n" THEN <<s>>
  ELSE LET p == SetMin({i \in 1..Len(s) : s[i] = "\n"})
       IN  <<SubSeq(s, 1, p - 1)>> \o splitLines(SubSeq(s, p + 1, Len(s)))

\* The value of a run of decimal digits
RECURSIVE digitsValue(_)
digitsValue(ds) ==
  IF ds = << >> THEN 0
  ELSE 10 * digitsValue(SubSeq(ds, 1, Len(ds) - 1))
         + (IndexOf(ds[Len(ds)], DigitChars) - 1)

\* The length of the longest prefix of s from position p made of digits
RECURSIVE digitRun(_, _)
digitRun(s, p) ==
  IF p <= Len(s) /\ IsDigit(s[p]) THEN 1 + digitRun(s, p + 1) ELSE 0

\* Number.prototype.toString for a non-negative integer
RECURSIVE natToString(_)
natToString(n) ==
  IF n < 10 THEN <<DigitChars[n + 1]>>
  ELSE natToString(n \div 10) \o <<DigitChars[(n % 10) + 1]>>

toString(n) == IF n < 0 THEN <<"-">> \o natToString(0 - n) ELSE natToString(n)

\* String(n).padStart(w, '0')
RECURSIVE padStart(_, _)
padStart(s, w) == IF Len(s) >= w THEN s ELSE padStart(<<"0">> \o s, w)

\* parseInt(s, 10): leading white space, an optional sign, then the longest run
\* of digits; NaN when there is no digit there.  The number is a record so that
\* NaN is a value no integer equals.
NaN == [isNaN |-> TRUE, n |-> 0]
Num(n) == [isNaN |-> FALSE, n |-> n]

\* The place of the first character that is not white space
firstNonSpace(s) ==
  LET keep == {i \in 1..Len(s) : ~IsSpace(s[i])}
  IN  IF keep = {} THEN Len(s) + 1 ELSE SetMin(keep)

signLen(s, p) == IF p <= Len(s) /\ s[p] \in {"-", "+"} THEN 1 ELSE 0

\* The digits from q, under the sign at p
signedDigits(s, p, q) ==
  IF digitRun(s, q) = 0 THEN NaN
  ELSE Num((IF p <= Len(s) /\ s[p] = "-" THEN -1 ELSE 1)
             * digitsValue(SubSeq(s, q, q + digitRun(s, q) - 1)))

parseIntFrom(s, p) == signedDigits(s, p, p + signLen(s, p))

parseInt(s) == parseIntFrom(s, firstNonSpace(s))

isNaN(x) == x.isNaN

----------------------------------------------------------------------------
(* The document tree: a document is a sequence of tables, a table a        *)
(* sequence of rows, a row a sequence of cells, a cell its text.           *)

\* cells[idx] of a JavaScript array (idx counts from 0): the one-element
\* sequence holding the cell, or the empty sequence for undefined
cellAt(cells, idx) ==
  IF idx \in 0..(Len(cells) - 1) THEN <<cells[idx + 1]>> ELSE << >>

getCellText_undefinedText(cell) ==
  IF cell = << >> THEN <<"u","n","d","e","f","i","n","e","d">> ELSE trim(cell[1])

getCellText(cell) == IF cell = << >> THEN << >> ELSE trim(cell[1])

RECURSIVE trimmedNonEmpty(_)
trimmedNonEmpty(lines) ==
  IF lines = << >> THEN << >>
  ELSE LET t == trim(Head(lines))
       IN  IF t = << >> THEN trimmedNonEmpty(Tail(lines))
           ELSE <<t>> \o trimmedNonEmpty(Tail(lines))

extractListFromCell_keepBlank(cell) == splitLines(getCellText(cell))

extractListFromCell(cell) == trimmedNonEmpty(splitLines(getCellText(cell)))

toUpperCaseAll(texts) == [i \in 1..Len(texts) |-> toUpperCase(texts[i])]

\* row.innerText: the cells of a row, separated by a tab
innerText(row) == join(row, <<"\t">>)

\* Array.from(t.querySelectorAll('tr')) over the tables kept, flattened
RECURSIVE flatMap(_)
flatMap(ts) == IF ts = << >> THEN << >> ELSE Head(ts) \o flatMap(Tail(ts))

\* table.textContent: the text of every cell, nothing in between
textContent(table) == join(flatMap(table), << >>)

\* doc.body.innerText: one line per row
rowTexts(rows) == [i \in 1..Len(rows) |-> innerText(rows[i])]

bodyInnerText(ts) == join(rowTexts(flatMap(ts)), <<"\n">>)

\* Array.prototype.findIndex for a predicate given as the set of (0-based)
\* indices satisfying it
firstIndex(S) == IF S = {} THEN -1 ELSE SetMin(S)

----------------------------------------------------------------------------
(* Marker tokens                                                           *)

ROOM == <<"R","O","O","M">>
PATIENT == <<"P","A","T","I","E","N","T">>
FLOAT == <<"F","L","O","A","T">>
FLOATS == <<"F","L","O","A","T","S">>
RESPIRATORY == <<"R","E","S","P","I","R","A","T","O","R","Y">>
CPU == <<"C","P","U">>
DAY_SHIFT == <<"7","A","-","7","P">>
NIGHT_SHIFT == <<"7","P","-","7","A">>
DAY == <<"D","A","Y">>
NIGHT == <<"N","I","G","H","T">>
PCT == <<"P","C","T">>
CHARGE_NURSE == <<"C","H","A","R","G","E"," ","N","U","R","S","E">>

\* The keys handed to autoMapHeaders, by the AssignmentRow field they fill
GridKeys ==
  [room     |-> <<"r","o","o","m">>,
   prec     |-> <<"p","r","e","c">>,
   patient  |-> <<"p","a","t","i","e","n","t">>,
   mrn      |-> <<"m","r","n">>,
   status   |-> <<"s","t","a","t","u","s">>,
   rnday    |-> <<"r","n","d","a","y">>,
   extday   |-> <<"e","x","t","d","a","y">>,
   rnnight  |-> <<"r","n","n","i","g","h","t">>,
   extnight |-> <<"e","x","t","n","i","g","h","t">>]

----------------------------------------------------------------------------
(* autoMapHeaders                                                          *)

headerMatches_exact(h, key) ==
  toLowerCase(stripSpace(h)) = stripSpace(toLowerCase(key))

headerMatches(h, key) ==
  includes(toLowerCase(stripSpace(h)), stripSpace(toLowerCase(key)))

autoMapHeaders(headerCells, keys) ==
  [k \in DOMAIN keys |->
     firstIndex({i \in 0..(Len(headerCells) - 1) :
                   headerMatches(headerCells[i + 1], keys[k])})]

----------------------------------------------------------------------------
(* parseAssignmentsAndBottomSection                                        *)

EmptyText == << >>

defaultRow(room) ==
  [room |-> toString(room), prec |-> EmptyText, patient |-> EmptyText,
   mrn |-> EmptyText, status |-> EmptyText, rnDay |-> EmptyText,
   extDay |-> EmptyText, rnNight |-> EmptyText, extNight |-> EmptyText]

\* Array.from({ length: numRooms }, ...): an empty array when numRooms <= 0
defaultAssignments(lo, hi) == [i \in 1..(hi - lo + 1) |-> defaultRow(lo + i - 1)]

\* What reading a hole of a JavaScript array gives: no record at all
Hole ==
  [room |-> <<"undefined">>, prec |-> <<"undefined">>, patient |-> <<"undefined">>,
   mrn |-> <<"undefined">>, status |-> <<"undefined">>, rnDay |-> <<"undefined">>,
   extDay |-> <<"undefined">>, rnNight |-> <<"undefined">>, extNight |-> <<"undefined">>]

\* a[idx] = v on a JavaScript array (idx counts from 0): writing past the end
\* grows the array, leaving holes; a negative index is no element of the array
arraySet(a, idx, v) ==
  IF idx < 0 THEN a
  ELSE IF idx < Len(a) THEN [a EXCEPT ![idx + 1] = v]
  ELSE [i \in 1..(idx + 1) |-> IF i <= Len(a) THEN a[i]
                                ELSE IF i = idx + 1 THEN v ELSE Hole]

isGridHeaderRow_anyToken(r) ==
  LET txt == toUpperCase(innerText(r))
  IN  innerText(r) # << >> /\ (includes(txt, ROOM) \/ includes(txt, PATIENT))

isGridHeaderRow(r) ==
  LET txt == toUpperCase(innerText(r))
  IN  innerText(r) # << >> /\ includes(txt, ROOM) /\ includes(txt, PATIENT)

findHeaderRow(rows) ==
  firstIndex({i \in 0..(Len(rows) - 1) : isGridHeaderRow(rows[i + 1])})

hasBottomLabel_noCpu(txt) == includes(txt, FLOAT) \/ includes(txt, RESPIRATORY)

\* /(FLOAT|RESPIRATORY|CPU)/i.test(txt), txt in upper case
hasBottomLabel(txt) ==
  includes(txt, FLOAT) \/ includes(txt, RESPIRATORY) \/ includes(txt, CPU)

isBottomLabelRow(r) == hasBottomLabel(toUpperCase(innerText(r)))

\* if (gridEndIdx === -1) gridEndIdx = rows.length
orLength(e, rows) == IF e = -1 THEN Len(rows) ELSE e

findGridEnd(rows, hdr) ==
  orLength(firstIndex({i \in 0..(Len(rows) - 1) :
                         i > hdr /\ isBottomLabelRow(rows[i + 1])}), rows)

inRoomRange_eitherBound(room, lo, hi) ==
  ~isNaN(room) /\ (room.n >= lo \/ room.n <= hi)

inRoomRange_noUpper(room, lo, hi) == ~isNaN(room) /\ room.n >= lo

inRoomRange(room, lo, hi) == ~isNaN(room) /\ room.n >= lo /\ room.n <= hi

slotIndex_offByOne(room, lo) == room.n - lo + 1

slotIndex(room, lo) == room.n - lo

\* The record built from the cells of a body row
buildRow_merge(prev, cells, cm, roomStr) ==
  LET pick(old, new) == IF new = EmptyText THEN old ELSE new
  IN  [room     |-> roomStr,
       prec     |-> pick(prev.prec, getCellText(cellAt(cells, cm["prec"]))),
       patient  |-> pick(prev.patient, getCellText(cellAt(cells, cm["patient"]))),
       mrn      |-> pick(prev.mrn, getCellText(cellAt(cells, cm["mrn"]))),
       status   |-> pick(prev.status, getCellText(cellAt(cells, cm["status"]))),
       rnDay    |-> pick(prev.rnDay, getCellText(cellAt(cells, cm["rnday"]))),
       extDay   |-> pick(prev.extDay, getCellText(cellAt(cells, cm["extday"]))),
       rnNight  |-> pick(prev.rnNight, getCellText(cellAt(cells, cm["rnnight"]))),
       extNight |-> pick(prev.extNight, getCellText(cellAt(cells, cm["extnight"])))]

buildRow_precForPatient(prev, cells, cm, roomStr) ==
  [room     |-> roomStr,
   prec     |-> getCellText(cellAt(cells, cm["prec"])),
   patient  |-> getCellText(cellAt(cells, cm["prec"])),
   mrn      |-> getCellText(cellAt(cells, cm["mrn"])),
   status   |-> getCellText(cellAt(cells, cm["status"])),
   rnDay    |-> getCellText(cellAt(cells, cm["rnday"])),
   extDay   |-> getCellText(cellAt(cells, cm["extday"])),
   rnNight  |-> getCellText(cellAt(cells, cm["rnnight"])),
   extNight |-> getCellText(cellAt(cells, cm["extnight"]))]

buildRow(prev, cells, cm, roomStr) ==
  [room     |-> roomStr,
   prec     |-> getCellText(cellAt(cells, cm["prec"])),
   patient  |-> getCellText(cellAt(cells, cm["patient"])),
   mrn      |-> getCellText(cellAt(cells, cm["mrn"])),
   status   |-> getCellText(cellAt(cells, cm["status"])),
   rnDay    |-> getCellText(cellAt(cells, cm["rnday"])),
   extDay   |-> getCellText(cellAt(cells, cm["extday"])),
   rnNight  |-> getCellText(cellAt(cells, cm["rnnight"])),
   extNight |-> getCellText(cellAt(cells, cm["extnight"]))]

\* assignments[idx] = { ... }
placeAt(assignments, cells, cm, roomStr, idx) ==
  arraySet(assignments, idx,
           buildRow(IF idx \in 0..(Len(assignments) - 1)
                    THEN assignments[idx + 1] ELSE Hole,
                    cells, cm, roomStr))

placeRoom(assignments, cells, cm, roomStr, room, lo, hi) ==
  IF inRoomRange(room, lo, hi)
  THEN placeAt(assignments, cells, cm, roomStr, slotIndex(room, lo))
  ELSE assignments

placeText(assignments, cells, cm, roomStr, lo, hi) ==
  placeRoom(assignments, cells, cm, roomStr, parseInt(roomStr), lo, hi)

\* One pass of the "Fill assignments" loop body, for the row `cells`
placeRow(assignments, cells, cm, lo, hi) ==
  placeText(assignments, cells, cm, getCellText(cellAt(cells, cm["room"])), lo, hi)

\* for (let i = headerRowIdx + 1; i < gridEndIdx; ++i)
RECURSIVE fillAssignments(_, _, _, _, _, _, _)
fillAssignments(assignments, rows, i, gridEnd, cm, lo, hi) ==
  IF i >= gridEnd THEN assignments
  ELSE fillAssignments(placeRow(assignments, rows[i + 1], cm, lo, hi),
                       rows, i + 1, gridEnd, cm, lo, hi)

isFloatText(txt) == includes(txt, FLOATS) \/ includes(txt, FLOAT)

\* The assignments of one pass, for the row text txt (in upper case) and the
\* list read from the first cell
bottomRowWith(acc, txt, list) ==
  [floats |->
     [day   |-> IF isFloatText(txt) /\ includes(txt, DAY_SHIFT)
                THEN list ELSE acc.floats.day,
      night |-> IF isFloatText(txt) /\ includes(txt, NIGHT_SHIFT)
                THEN list ELSE acc.floats.night],
   respiratory |-> IF includes(txt, RESPIRATORY) THEN list ELSE acc.respiratory]

\* One pass of the "Bottom Section" loop body
bottomRow(acc, row) ==
  bottomRowWith(acc, toUpperCase(innerText(row)), extractListFromCell(cellAt(row, 0)))

\* for (let i = gridEndIdx; i < rows.length; ++i)
RECURSIVE bottomSection(_, _, _)
bottomSection(acc, rows, i) ==
  IF i >= Len(rows) THEN acc
  ELSE bottomSection(bottomRow(acc, rows[i + 1]), rows, i + 1)

HeaderNotFound == "Assignment table header not found."

EmptyBottom == [floats |-> [day |-> << >>, night |-> << >>], respiratory |-> << >>]

\* What the function hands back, with its locals
gridOutcome(rows, hdr, cm, gridEnd, bottom, lo, hi) ==
  [threw |-> FALSE,
   headerRowIdx |-> hdr, colMap |-> cm, gridEndIdx |-> gridEnd,
   assignments |-> fillAssignments(defaultAssignments(lo, hi), rows,
                                   hdr + 1, gridEnd, cm, lo, hi),
   floats |-> bottom.floats,
   respiratory |-> bottom.respiratory]

parseGridTo(rows, hdr, gridEnd, lo, hi) ==
  gridOutcome(rows, hdr, autoMapHeaders(rows[hdr + 1], GridKeys), gridEnd,
              bottomSection(EmptyBottom, rows, gridEnd), lo, hi)

parseGridFrom(rows, hdr, lo, hi) ==
  IF hdr = -1
  THEN [threw |-> TRUE, message |-> HeaderNotFound]
  ELSE parseGridTo(rows, hdr, findGridEnd(rows, hdr), lo, hi)

parseAssignmentsAndBottomSection(rows, lo, hi) ==
  parseGridFrom(rows, findHeaderRow(rows), lo, hi)

----------------------------------------------------------------------------
(* Dates: the Date object holds the UTC day its instant falls on           *)

IsMonth(x) == x \in 1..12
IsDay(x) == x \in 1..31

\* Days from 1970-01-01 to the civil date y-m-d (proleptic Gregorian)
daysFromCivil(y, m, d) ==
  LET yy  == IF m <= 2 THEN y - 1 ELSE y
      era == yy \div 400
      yoe == yy - era * 400
      mp  == IF m > 2 THEN m - 3 ELSE m + 9
      doy == (153 * mp + 2) \div 5 + d - 1
      doe == yoe * 365 + yoe \div 4 - yoe \div 100 + doy
  IN  era * 146097 + doe - 719468

\* The civil date of a day count, step by step: the year of the era, the day
\* of the year, the month counted from March
civilOfMonth(y0, doy, mp) ==
  [y |-> y0 + (IF mp < 10 THEN 0 ELSE 1),
   m |-> IF mp < 10 THEN mp + 3 ELSE mp - 9,
   d |-> doy - (153 * mp + 2) \div 5 + 1]

civilOfDoy(y0, doy) == civilOfMonth(y0, doy, (5 * doy + 2) \div 153)

civilOfYoe(era, doe, yoe) ==
  civilOfDoy(yoe + era * 400, doe - (365 * yoe + yoe \div 4 - yoe \div 100))

civilOfDoe(era, doe) ==
  civilOfYoe(era, doe,
             (doe - doe \div 1460 + doe \div 36524 - doe \div 146096) \div 365)

civilOfEra(z, era) == civilOfDoe(era, z - era * 146097)

civilFromDays(z0) == civilOfEra(z0 + 719468, (z0 + 719468) \div 146097)

InvalidDate == [valid |-> FALSE, t |-> 0]

\* A date-only ISO string is midnight UTC; a day past the month's end rolls over
utcMidnight(y, m, d) == [valid |-> TRUE, t |-> daysFromCivil(y, m, 1) + d - 1]

\* Any other form is midnight local time: east of UTC (tzo > 0 hours) that
\* instant still belongs to the previous UTC day
localMidnight(y, m, d, tzo) ==
  [valid |-> TRUE,
   t |-> daysFromCivil(y, m, 1) + d - 1 - (IF tzo > 0 THEN 1 ELSE 0)]

\* d.toISOString().split('T')[0]
formatYMD(c) ==
  padStart(natToString(c.y), 4) \o <<"-">> \o padStart(natToString(c.m), 2)
    \o <<"-">> \o padStart(natToString(c.d), 2)

toISODate(dv) == formatYMD(civilFromDays(dv.t))

\* Two-digit years of the legacy date forms
legacyYear(y) ==
  IF y \in 0..49 THEN y + 2000 ELSE IF y \in 50..99 THEN y + 1900 ELSE y

MonthPrefixes ==
  << <<"j","a","n">>, <<"f","e","b">>, <<"m","a","r">>, <<"a","p","r">>,
     <<"m","a","y">>, <<"j","u","n">>, <<"j","u","l">>, <<"a","u","g">>,
     <<"s","e","p">>, <<"o","c","t">>, <<"n","o","v">>, <<"d","e","c">> >>

\* The month a word names by its first three letters, 0 if none
monthOf(word) ==
  IF Len(word) < 3 THEN 0
  ELSE LET pre == toLowerCase(SubSeq(word, 1, 3))
           S   == {i \in 1..12 : MonthPrefixes[i] = pre}
       IN  IF S = {} THEN 0 ELSE SetMin(S)

Weekdays ==
  { <<"m","o","n">>, <<"t","u","e">>, <<"w","e","d">>, <<"t","h","u">>,
    <<"f","r","i">>, <<"s","a","t">>, <<"s","u","n">> }

OrdinalSuffixes == { <<"s","t">>, <<"n","d">>, <<"r","d">>, <<"t","h">> }

RECURSIVE wordRun(_, _)
wordRun(s, p) == IF p <= Len(s) /\ IsWord(s[p]) THEN 1 + wordRun(s, p + 1) ELSE 0

RECURSIVE spaceRun(_, _)
spaceRun(s, p) == IF p <= Len(s) /\ IsSpace(s[p]) THEN 1 + spaceRun(s, p + 1) ELSE 0

\* \b before position p
boundaryBefore(s, p) == p = 1 \/ ~IsWord(s[p - 1])

\* The pieces of the patterns: each takes the position reached so far and
\* gives the position after its piece, 0 standing for a match that failed.
\* Consecutive pieces have disjoint character classes, so the greedy match is
\* the only candidate.
\* ,?
optComma(s, p) == IF p > 0 /\ p <= Len(s) /\ s[p] = "," THEN p + 1 ELSE p

\* \s+
someSpaces(s, p) == IF p = 0 \/ spaceRun(s, p) = 0 THEN 0 ELSE p + spaceRun(s, p)

\* \w+
someWord(s, p) == IF p = 0 \/ wordRun(s, p) = 0 THEN 0 ELSE p + wordRun(s, p)

\* \d{1,2} followed by no digit
oneOrTwoDigits(s, p) ==
  IF p = 0 \/ digitRun(s, p) \notin {1, 2} THEN 0 ELSE p + digitRun(s, p)

\* (?:st|nd|rd|th)? under the i flag
optOrdinal(s, p) ==
  IF p > 0 /\ p + 1 <= Len(s) /\ toLowerCase(SubSeq(s, p, p + 1)) \in OrdinalSuffixes
  THEN p + 2 ELSE p

\* \d{4}\b
yearDigits(s, p) ==
  IF p = 0 \/ digitRun(s, p) < 4 \/ (p + 4 <= Len(s) /\ IsWord(s[p + 4]))
  THEN 0 ELSE p + 4

\* \b(?:mon|tue|wed|thu|fri|sat|sun) under the i flag
weekdayAt(s, p) ==
  /\ boundaryBefore(s, p)
  /\ p + 2 <= Len(s)
  /\ toLowerCase(SubSeq(s, p, p + 2)) \in Weekdays

\* dateRegex anchored at p: the position after the match, 0 if it fails
longDateEnd(s, p) ==
  IF weekdayAt(s, p)
  THEN yearDigits(s, someSpaces(s, optComma(s, optOrdinal(s, oneOrTwoDigits(s,
         someSpaces(s, someWord(s, someSpaces(s, optComma(s,
           p + 3 + wordRun(s, p + 3))))))))))
  ELSE 0

\* The leftmost of the places where a pattern matches, 0 if there is none
leftmost(S) == IF S = {} THEN 0 ELSE SetMin(S)

longDateFrom(s, p) ==
  IF p = 0 THEN << >> ELSE <<SubSeq(s, p, longDateEnd(s, p) - 1)>>

\* input.match(re): the empty sequence for null, else the one matched text
longDateMatch(s) ==
  longDateFrom(s, leftmost({p \in 1..Len(s) : longDateEnd(s, p) > 0}))

\* /\d{4}-\d{2}-\d{2}/
isoAt(s, p) ==
  /\ p + 9 <= Len(s)
  /\ \A i \in {0, 1, 2, 3, 5, 6, 8, 9} : IsDigit(s[p + i])
  /\ s[p + 4] = "-" /\ s[p + 7] = "-"

isoMatch(s) ==
  LET S == {p \in 1..Len(s) : isoAt(s, p)}
  IN  IF S = {} THEN << >> ELSE <<SubSeq(s, SetMin(S), SetMin(S) + 9)>>

\* \/
slashSign(s, p) == IF p > 0 /\ p <= Len(s) /\ s[p] = "/" THEN p + 1 ELSE 0

\* \d{2,4}
slashYear(s, p) ==
  IF p = 0 \/ digitRun(s, p) < 2 THEN 0
  ELSE p + (IF digitRun(s, p) > 4 THEN 4 ELSE digitRun(s, p))

\* /\d{1,2}\/\d{1,2}\/\d{2,4}/ anchored at p: the position after the match, or 0
slashEnd(s, p) ==
  slashYear(s, slashSign(s, oneOrTwoDigits(s, slashSign(s, oneOrTwoDigits(s, p)))))

slashFrom(s, p) ==
  IF p = 0 THEN << >> ELSE <<SubSeq(s, p, slashEnd(s, p) - 1)>>

slashMatch(s) ==
  slashFrom(s, leftmost({p \in 1..Len(s) : slashEnd(s, p) > 0}))

\* .replace(/(\d{1,2})(st|nd|rd|th)/, '$1'): the first place only, lower case only
stripOrdinal(s) ==
  LET sufAt(q) == q + 1 <= Len(s) /\ SubSeq(s, q, q + 1) \in OrdinalSuffixes
      two(q)   == IsDigit(s[q]) /\ q + 1 <= Len(s) /\ IsDigit(s[q + 1]) /\ sufAt(q + 2)
      one(q)   == IsDigit(s[q]) /\ sufAt(q + 1)
      S        == {q \in 1..Len(s) : two(q) \/ one(q)}
  IN  IF S = {} THEN s
      ELSE LET q == SetMin(S)
               u == IF two(q) THEN q + 2 ELSE q + 1
           IN  SubSeq(s, 1, u - 1) \o SubSeq(s, u + 2, Len(s))

\* .replace(/,\s+/g, ' ')
RECURSIVE commaSpace(_)
commaSpace(s) ==
  IF s = << >> THEN << >>
  ELSE IF Head(s) = "," /\ spaceRun(s, 2) > 0
       THEN <<" ">> \o commaSpace(SubSeq(s, 2 + spaceRun(s, 2), Len(s)))
       ELSE <<Head(s)>> \o commaSpace(Tail(s))

\* s.split(/\s+/) without the empty pieces
RECURSIVE tokens(_)
tokens(s) ==
  IF s = << >> THEN << >>
  ELSE IF IsSpace(Head(s)) THEN tokens(Tail(s))
       ELSE LET n == SetMin({i \in 1..(Len(s) + 1) : i > Len(s) \/ IsSpace(s[i])})
            IN  <<SubSeq(s, 1, n - 1)>> \o tokens(SubSeq(s, n, Len(s)))

allDigits(t) == \A i \in 1..Len(t) : IsDigit(t[i])
allLetters(t) == \A i \in 1..Len(t) : IsLetter(t[i])

\* The day the numbers read make, in the order they were read
dayOrder(nums, named) ==
  IF named > 0 /\ Len(nums) = 2
  THEN IF ~IsDay(nums[1])
       THEN [ok |-> TRUE, y |-> nums[1], m |-> named, d |-> nums[2]]
       ELSE [ok |-> TRUE, y |-> nums[2], m |-> named, d |-> nums[1]]
  ELSE IF named = 0 /\ Len(nums) = 3
  THEN IF ~IsDay(nums[1])
       THEN [ok |-> TRUE, y |-> nums[1], m |-> nums[2], d |-> nums[3]]
       ELSE [ok |-> TRUE, y |-> nums[3], m |-> nums[1], d |-> nums[2]]
  ELSE [ok |-> FALSE, y |-> 0, m |-> 0, d |-> 0]

dayOf(ymd, tzo) ==
  IF ymd.ok /\ IsMonth(ymd.m) /\ IsDay(ymd.d)
  THEN localMidnight(legacyYear(ymd.y), ymd.m, ymd.d, tzo)
  ELSE InvalidDate

\* The numbers of a day composer: month, day and year from the numbers read
\* and the month named, if any
composeDay(nums, named, tzo) == dayOf(dayOrder(nums, named), tzo)

\* new Date(text) for a text of words and numbers separated by white space:
\* a word naming a month sets the month, any other word is ignored before the
\* first number and illegal after it, a token mixing digits with anything
\* else is illegal
RECURSIVE legacyScan(_, _, _, _)
legacyScan(ts, nums, named, tzo) ==
  IF ts = << >> THEN composeDay(nums, named, tzo)
  ELSE LET t == Head(ts)
       IN  IF allDigits(t)
           THEN legacyScan(Tail(ts), Append(nums, digitsValue(t)), named, tzo)
           ELSE IF allLetters(t) /\ monthOf(t) > 0
           THEN legacyScan(Tail(ts), nums, monthOf(t), tzo)
           ELSE IF allLetters(t) /\ nums = << >>
           THEN legacyScan(Tail(ts), nums, named, tzo)
           ELSE InvalidDate

legacyDate(text, tzo) == legacyScan(tokens(text), << >>, 0, tzo)

\* new Date("M/D/Y")
slashDate(text, tzo) ==
  LET a == digitRun(text, 1)
      b == digitRun(text, a + 2)
  IN  composeDay(<<digitsValue(SubSeq(text, 1, a)),
                   digitsValue(SubSeq(text, a + 2, a + 1 + b)),
                   digitsValue(SubSeq(text, a + b + 3, Len(text)))>>, 0, tzo)

\* new Date("YYYY-MM-DD")
isoDate(text) ==
  LET y == digitsValue(SubSeq(text, 1, 4))
      m == digitsValue(SubSeq(text, 6, 7))
      d == digitsValue(SubSeq(text, 9, 10))
  IN  IF IsMonth(m) /\ IsDay(d) THEN utcMidnight(y, m, d) ELSE InvalidDate

isoOr_unchecked(d, otherwise) == toISODate(d)

\* if (!isNaN(d.getTime())) return d.toISOString().split('T')[0]
isoOr(d, otherwise) == IF d.valid THEN toISODate(d) ELSE otherwise

\* new Date(cleaned) for the match m of dateRegex
longDate(m, tzo) ==
  IF m = << >> THEN InvalidDate
  ELSE legacyDate(commaSpace(stripOrdinal(m[1])), tzo)

\* new Date(fallbackMatch[0]) for the matches of the two fallback patterns
fallbackDate(iso, sl, tzo) ==
  IF iso # << >> THEN isoDate(iso[1])
  ELSE IF sl # << >> THEN slashDate(sl[1], tzo)
  ELSE InvalidDate

parseDate_isoFirst(input, tzo, now) ==
  isoOr(fallbackDate(isoMatch(input), slashMatch(input), tzo),
        isoOr(longDate(longDateMatch(input), tzo), now))

\* A parser that trusts the clock more than the text
parseDate_clockOnly(input, tzo, now) == now

\* parseDate; now is new Date().toISOString().split('T')[0]
parseDate(input, tzo, now) ==
  isoOr(longDate(longDateMatch(input), tzo),
        isoOr(fallbackDate(isoMatch(input), slashMatch(input), tzo), now))

----------------------------------------------------------------------------
(* parseInfoTable                                                          *)

\* /\b(?:mon|tue|wed|thu|fri|sat|sun)/.test(txt): no i flag
hasWeekdayToken(txt) ==
  \E p \in 1..(Len(txt) - 2) :
     boundaryBefore(txt, p) /\ SubSeq(txt, p, p + 2) \in Weekdays

RECURSIVE nonSpaceRun(_, _)
nonSpaceRun(s, p) ==
  IF p <= Len(s) /\ ~IsSpace(s[p]) THEN 1 + nonSpaceRun(s, p + 1) ELSE 0

\* The run of characters "." matches: anything but a line break
RECURSIVE sameLineRun(_, _)
sameLineRun(s, p) ==
  IF p <= Len(s) /\ s[p] # "\n" THEN 1 + sameLineRun(s, p + 1) ELSE 0

\* (?:7[aA]-7[pP]|DAY) at q, or (?:7[pP]-7[aA]|NIGHT) for the night shift
shiftTokenAt(s, q, night) ==
  LET x == IF night THEN {"p", "P"} ELSE {"a", "A"}
      y == IF night THEN {"a", "A"} ELSE {"p", "P"}
  IN  \/ /\ q >= 1 /\ q + 4 <= Len(s)
         /\ s[q] = "7" /\ s[q + 1] \in x /\ s[q + 2] = "-"
         /\ s[q + 3] = "7" /\ s[q + 4] \in y
      \/ OccursAt(s, IF night THEN NIGHT ELSE DAY, q)

\* \s*(?:shift token) from q
shiftTailAt(s, q, night) ==
  \E w \in 0..spaceRun(s, q) : shiftTokenAt(s, q + w, night)

\* (.+?) from gs followed by the tail: the shortest length that works, 0 if none
lazyGroupLen(s, gs, night) ==
  LET S == {g \in 1..sameLineRun(s, gs) : shiftTailAt(s, gs + g, night)}
  IN  IF S = {} THEN 0 ELSE SetMin(S)

\* The ways /PCT\S*:?\s*(.+?)\s*(?:token)/ matches from p, as <<k, c, w>>:
\* the lengths taken by \S*, :? and the first \s*
pctWays(s, p, night) ==
  IF ~OccursAt(s, PCT, p) THEN {}
  ELSE {x \in (0..nonSpaceRun(s, p + 3)) \X {0, 1} \X (0..Len(s)) :
          /\ x[2] = 1 => (p + 3 + x[1] <= Len(s) /\ s[p + 3 + x[1]] = ":")
          /\ x[3] <= spaceRun(s, p + 3 + x[1] + x[2])
          /\ lazyGroupLen(s, p + 3 + x[1] + x[2] + x[3], night) > 0}

\* Backtracking tries the greedy quantifiers longest first, the leftmost
\* quantifier varying slowest
pctRank(x) == x[1] * 1000000 + x[2] * 1000 + x[3]

pctBest(W) == CHOOSE u \in W : \A v \in W : pctRank(u) >= pctRank(v)

pctGroupStart(p, x) == p + 3 + x[1] + x[2] + x[3]

pctGroup(s, gs, night) ==
  <<trim(SubSeq(s, gs, gs + lazyGroupLen(s, gs, night) - 1))>>

pctCaptureAt(s, p, night) ==
  IF p = 0 THEN << >>
  ELSE pctGroup(s, pctGroupStart(p, pctBest(pctWays(s, p, night))), night)

\* m[1].trim() of the PCT pattern: no text when the pattern does not match
pctCapture(s, night) ==
  pctCaptureAt(s, leftmost({p \in 1..Len(s) : pctWays(s, p, night) # {}}), night)

IsNameChar(c) == IsWord(c) \/ c = "-"

RECURSIVE nameRun(_, _)
nameRun(s, p) ==
  IF p <= Len(s) /\ IsNameChar(s[p]) THEN 1 + nameRun(s, p + 1) ELSE 0

CHARGE_NURSE_COLON == CHARGE_NURSE \o <<":">>

\* The place after CHARGE NURSE:\s* matched at p
chargeNameStart(s, p) ==
  p + Len(CHARGE_NURSE_COLON) + spaceRun(s, p + Len(CHARGE_NURSE_COLON))

chargeNameAt(s, q) == <<trim(SubSeq(s, q, q + nameRun(s, q) - 1))>>

chargeCaptureAt(s, p) ==
  IF p = 0 THEN << >> ELSE chargeNameAt(s, chargeNameStart(s, p))

\* m[1].trim() of /CHARGE NURSE:\s*([\w\-]+)/i: no text when it does not match
chargeCapture(s) ==
  chargeCaptureAt(s, leftmost({p \in 1..Len(s) :
                                 /\ OccursAt(toUpperCase(s), CHARGE_NURSE_COLON, p)
                                 /\ nameRun(s, chargeNameStart(s, p)) > 0}))

\* Optional texts: the empty sequence is undefined, <<t>> the text t
EmptyInfo ==
  [date |-> << >>, pctsDay |-> << >>, pctsNight |-> << >>,
   chargeNurses |-> [day |-> EmptyText, night |-> EmptyText]]

\* !roster.date
noDate(roster) == roster.date = << >> \/ roster.date = <<EmptyText>>

isDayText(txt) == includes(txt, DAY_SHIFT) \/ includes(txt, DAY)
isNightText(txt) == includes(txt, NIGHT_SHIFT) \/ includes(txt, NIGHT)

\* The assignments of one pass, for the row text txt (in upper case) and the
\* captures pd, pn and cn of the three patterns on the row's own text
infoRowWith(roster, txt, pd, pn, cn, tzo, now) ==
  [date      |-> IF noDate(roster) /\ hasWeekdayToken(txt)
                 THEN <<parseDate(txt, tzo, now)>> ELSE roster.date,
   pctsDay   |-> IF includes(txt, PCT) /\ isDayText(txt) /\ pd # << >>
                 THEN pd ELSE roster.pctsDay,
   pctsNight |-> IF includes(txt, PCT) /\ isNightText(txt) /\ pn # << >>
                 THEN pn ELSE roster.pctsNight,
   chargeNurses |->
     [day   |-> IF includes(txt, CHARGE_NURSE) /\ isDayText(txt) /\ cn # << >>
                THEN cn[1] ELSE roster.chargeNurses.day,
      night |-> IF includes(txt, CHARGE_NURSE) /\ isNightText(txt) /\ cn # << >>
                THEN cn[1] ELSE roster.chargeNurses.night]]

infoRowText(roster, raw, tzo, now) ==
  infoRowWith(roster, toUpperCase(raw), pctCapture(raw, FALSE),
              pctCapture(raw, TRUE), chargeCapture(raw), tzo, now)

\* One pass of the loop over the rows of the info table
infoRow(roster, row, tzo, now) == infoRowText(roster, innerText(row), tzo, now)

RECURSIVE infoRows(_, _, _, _)
infoRows(roster, rows, tzo, now) ==
  IF rows = << >> THEN roster
  ELSE infoRows(infoRow(roster, Head(rows), tzo, now), Tail(rows), tzo, now)

parseInfoTable(table, tzo, now) == infoRows(EmptyInfo, table, tzo, now)

----------------------------------------------------------------------------
(* parseRosterFromHtml                                                     *)

hasChargeNurse(t) == includes(toUpperCase(textContent(t)), CHARGE_NURSE)

\* The info table as its (1-based) place among the tables; 0 is undefined
selectInfoTable_noFallback(ts) ==
  LET S == {i \in 1..Len(ts) : hasChargeNurse(ts[i])}
  IN  IF S # {} THEN SetMin(S) ELSE 0

selectInfoTable_lastFallback(ts) ==
  LET S == {i \in 1..Len(ts) : hasChargeNurse(ts[i])}
  IN  IF S # {} THEN SetMin(S) ELSE Len(ts)

selectInfoTable(ts) ==
  LET S == {i \in 1..Len(ts) : hasChargeNurse(ts[i])}
  IN  IF S # {} THEN SetMin(S) ELSE IF Len(ts) > 0 THEN 1 ELSE 0

RECURSIVE rowsExcept(_, _, _)
rowsExcept(ts, info, i) ==
  IF i > Len(ts) THEN << >>
  ELSE (IF i = info THEN << >> ELSE ts[i]) \o rowsExcept(ts, info, i + 1)

\* The rows of every table, the info table included
contentRowsOf_unfiltered(ts, info) == flatMap(ts)

contentRowsOf(ts, info) == rowsExcept(ts, info, 1)

\* x with no default: an absent value stays absent, read as "undefined"
orElse_noDefault(x, y) == IF x = << >> THEN <<"undefined">> ELSE x[1]

\* x || y for optional texts: the empty text is falsy too
orElse(x, y) == IF x = << >> \/ x = <<EmptyText>> THEN y ELSE x[1]

NoColMap == [k \in DOMAIN GridKeys |-> -1]

NoRoster ==
  [date |-> EmptyText, pctsDay |-> EmptyText, pctsNight |-> EmptyText,
   chargeNurses |-> [day |-> EmptyText, night |-> EmptyText],
   assignments |-> << >>,
   floats |-> [day |-> << >>, night |-> << >>],
   respiratory |-> << >>]

InfoTableUndefined == "TypeError: Cannot read properties of undefined"

\* The roster returned, from the parts read
rosterOf(part, grid, dateFromBody, now) ==
  [date |-> orElse(part.date, orElse(<<dateFromBody>>, now)),
   pctsDay |-> orElse(part.pctsDay, EmptyText),
   pctsNight |-> orElse(part.pctsNight, EmptyText),
   chargeNurses |-> part.chargeNurses,
   assignments |-> grid.assignments,
   floats |-> grid.floats,
   respiratory |-> grid.respiratory]

\* What a call leaves behind: whether it threw and with what message, the
\* roster it returned, and the values of its locals
outcome(ts, info, rows, grid, tzo, now) ==
  IF grid.threw
  THEN [threw |-> TRUE, message |-> grid.message, roster |-> NoRoster,
        infoTable |-> info, contentRows |-> rows,
        headerRowIdx |-> -1, colMap |-> NoColMap, gridEndIdx |-> -1]
  ELSE IF info = 0
  THEN [threw |-> TRUE, message |-> InfoTableUndefined, roster |-> NoRoster,
        infoTable |-> info, contentRows |-> rows,
        headerRowIdx |-> grid.headerRowIdx, colMap |-> grid.colMap,
        gridEndIdx |-> grid.gridEndIdx]
  ELSE [threw |-> FALSE, message |-> "",
        roster |-> rosterOf(parseInfoTable(ts[info], tzo, now), grid,
                            parseDate(bodyInnerText(ts), tzo, now), now),
        infoTable |-> info, contentRows |-> rows,
        headerRowIdx |-> grid.headerRowIdx, colMap |-> grid.colMap,
        gridEndIdx |-> grid.gridEndIdx]

parseRows(ts, info, rows, lo, hi, tzo, now) ==
  outcome(ts, info, rows, parseAssignmentsAndBottomSection(rows, lo, hi), tzo, now)

parseWithInfo(ts, info, lo, hi, tzo, now) ==
  parseRows(ts, info, contentRowsOf(ts, info), lo, hi, tzo, now)

parseRosterFromHtml(ts, lo, hi, tzo, now) ==
  parseWithInfo(ts, selectInfoTable(ts), lo, hi, tzo, now)

----------------------------------------------------------------------------
(* Input documents                                                         *)

MaxBody == 2
MaxTables == 3
MaxSpan == 2

\* parseAssignmentsAndBottomSection(rows, startRoom = 501, endRoom = 532)
DefaultStartRoom == 501
DefaultEndRoom == 532

\* Rows of a content table
HeaderRow ==
  <<<<"R","O","O","M">>, <<"P","A","T","I","E","N","T">>, <<"R","N"," ","D","A","Y","S">>>>

HeaderRowNoPatient ==
  <<<<"R","O","O","M">>, <<"M","R","N">>>>

DateRowUnparsable ==
  <<<<"F","r","i",","," ","F","o","o"," ","4","t","h",","," ","2","0","2","5">>>>

HeaderRowSwapped ==
  <<<<"P","a","t","i","e","n","t">>, <<"R","o","o","m"," ","N","o">>>>

Body501 ==
  <<<<"5","0","1">>, <<"J","."," ","D","o","e">>, <<"#","7","5","0","2">>>>

Body501Again ==
  <<<<" ","5","0","1"," ">>, <<"A","."," ","R","o","e">>, << >>>>

Body502Suffixed ==
  <<<<"5","0","2","A">>, <<"B","."," ","P","o","e">>, <<"7","5","0","3">>>>

Body999 ==
  <<<<"9","9","9">>, <<"X">>, <<"1">>>>

BodyAbc ==
  <<<<"a","b","c">>, <<"Y">>, <<"2">>>>

BodyEmptyRoom ==
  <<<< >>, <<"Z">>, <<"3">>>>

BodyNoCells ==
  << >>

BodySwapped502 ==
  <<<<"K","."," ","L","e","e">>, <<"5","0","2">>>>

FloatRow ==
  <<<<"F","L","O","A","T","S"," ","7","A","-","7","P","\n","A","n","n","\n","\n"," ","B","o","b"," ">>>>

Body512 ==
  <<<<"5","1","2">>, <<"J","."," ","D","o","e">>, <<"#","7","5","0","2">>>>

Body513 ==
  <<<<"5","1","3">>, <<"A","."," ","R","o","e">>, << >>>>

DateRowFriday ==
  <<<<"F","r","i",","," ","A","p","r"," ","4","t","h",","," ","2","0","2","5">>>>

DateRowMonday ==
  <<<<"M","o","n",","," ","A","p","r"," ","7","t","h",","," ","2","0","2","5">>>>

ChargeDayRow ==
  <<<<"C","H","A","R","G","E"," ","N","U","R","S","E",":"," ","A","n","n">>, <<"7","A","-","7","P">>>>

ChargeNightRow ==
  <<<<"C","h","a","r","g","e"," ","N","u","r","s","e",":"," ","B","o"," ","7","P","-","7","A">>>>

PctRow ==
  <<<<"P","C","T","'","S",":"," ","C","y"," ","7","A","-","7","P">>>>

\* The rows that may follow the first rows of a content table
BodyPool ==
  {Body501, Body501Again, Body502Suffixed, Body999, BodyAbc, BodyEmptyRoom,
   BodyNoCells, BodySwapped502, FloatRow}

\* The first rows of a content table: a header or none, a stray row before it
PrefixPool ==
  {<< >>, <<HeaderRow>>, <<HeaderRowSwapped>>, <<HeaderRowNoPatient>>,
   <<Body501, HeaderRow>>}

SeqsUpTo(S, n) == UNION {[1..k -> S] : k \in 0..n}

\* The info table of the grid documents
InfoTableStd == <<ChargeDayRow>>

\* Whole tables of a document
InfoTableDated == <<ChargeDayRow, DateRowFriday>>
InfoTableWithHeader == <<ChargeNightRow, HeaderRow>>
PlainTable == <<PctRow, DateRowUnparsable>>
GridTable == <<HeaderRow, Body512>>
ContinuationTable == <<Body513, BodyNoCells>>
TitleTable == <<DateRowMonday>>

TablePool ==
  {InfoTableDated, InfoTableWithHeader, PlainTable, GridTable,
   ContinuationTable, TitleTable}

RoomRanges ==
  {r \in (501..(500 + MaxSpan)) \X (501..(500 + MaxSpan)) : r[1] <= r[2]}

\* Hours east of UTC of the host
TimeZones == {-5, 0, 9}

\* new Date().toISOString().split('T')[0] at the time of the call
Today == <<"2","0","2","6","-","0","1","-","1","5">>

----------------------------------------------------------------------------
(* services/docProcessor.ts: the parser of the dashboard application, which *)
(* finds the grid header and the footer header by keyword score            *)

RM == <<"R","M">>
PREC == <<"P","R","E","C">>
MRN == <<"M","R","N">>
STATUS == <<"S","T","A","T","U","S">>
EXT == <<"E","X","T">>
RN_DAYS == <<"R","N"," ","D","A","Y","S">>
RN_NIGHTS == <<"R","N"," ","N","I","G","H","T","S">>
TEAM_A == <<"T","E","A","M"," ","A">>
PCTS == <<"P","C","T","'","S">>
DATE == <<"D","A","T","E">>
RESPIRATORY_THERAPISTS == <<"R","E","S","P","I","R","A","T","O","R","Y"," ","T","H","E","R","A","P","I","S","T","S">>
FLOATS_DAYS == <<"F","L","O","A","T","S"," ","(","D","A","Y","S",")">>
FLOATS_NIGHTS == <<"F","L","O","A","T","S"," ","(","N","I","G","H","T","S",")">>

INFO_KEYWORDS == {CHARGE_NURSE, TEAM_A, PCTS}
GRID_HEADER_KEYWORDS == {RM, PATIENT, RN_DAYS, RN_NIGHTS}
BOTTOM_HEADER_KEYWORDS == {RESPIRATORY_THERAPISTS, FLOATS_DAYS, FLOATS_NIGHTS}

TooFewTables == "Parsing failed: Expected at least 2 tables (info, content)."
InfoTableNotFound ==
  "Failed to identify the main information table (Charge Nurse, PCTs)."
GridHeaderNotFound ==
  "Could not find the main assignment grid header row (RM, PATIENT, etc.). Please check file formats."

\* Array.from(row.cells).map(getCellText)
cellTextsOf(row) == [i \in 1..Len(row) |-> getCellText(<<row[i]>>)]

\* getRowTextFromCells of parseRosterFromHtml: the cell texts joined by a
\* space, in upper case
getRowTextFromCells(row) == toUpperCase(join(cellTextsOf(row), <<" ">>))

\* KEYWORDS.filter(k => rowText.includes(k)).length
keywordScore(rowText, keywords) ==
  Cardinality({k \in keywords : includes(rowText, k)})

\* if (score > max) { max = score; index = i }
bestRowStep_lastBest(best, i, score) ==
  IF score >= best.score /\ score > 0 THEN [index |-> i, score |-> score] ELSE best

bestRowStep(best, i, score) ==
  IF score > best.score THEN [index |-> i, score |-> score] ELSE best

\* contentRows.forEach((row, index) => ...) for one of the two keyword lists
RECURSIVE bestRow(_, _, _, _)
bestRow(rows, keywords, i, best) ==
  IF i >= Len(rows) THEN best
  ELSE bestRow(rows, keywords, i + 1,
               bestRowStep(best, i,
                           keywordScore(getRowTextFromCells(rows[i + 1]), keywords)))

NoBestRow == [index |-> -1, score |-> 0]

\* The bottom header must be different, come after the grid header and have
\* a decent score
acceptBottom_anyScore(grid, bottom) ==
  IF bottom.index = grid.index \/ bottom.index < grid.index
  THEN -1 ELSE bottom.index

acceptBottom(grid, bottom) ==
  IF bottom.index = grid.index \/ bottom.index < grid.index \/ bottom.score < 2
  THEN -1 ELSE bottom.index

\* headerCells.findIndex(h => h.includes(text))
getIndex(headerCells, text) ==
  firstIndex({i \in 0..(Len(headerCells) - 1) : includes(headerCells[i + 1], text)})

\* extIndices.find(i => i > lo && i < hi) ?? -1, hi = -1 standing for Infinity
extIndex(headerCells, lo, hi) ==
  firstIndex({i \in 0..(Len(headerCells) - 1) :
                includes(headerCells[i + 1], EXT) /\ i > lo /\ (hi = -1 \/ i < hi)})

colIdxWith(headerCells, rnDay, rnNight) ==
  [rm       |-> getIndex(headerCells, RM),
   prec     |-> getIndex(headerCells, PREC),
   patient  |-> getIndex(headerCells, PATIENT),
   mrn      |-> getIndex(headerCells, MRN),
   status   |-> getIndex(headerCells, STATUS),
   rnDay    |-> rnDay,
   rnNight  |-> rnNight,
   extDay   |-> extIndex(headerCells, rnDay, rnNight),
   extNight |-> extIndex(headerCells, rnNight, -1)]

\* The column of each field, from the upper-cased texts of the header cells
colIdxOfCells(headerCells) ==
  colIdxWith(headerCells, getIndex(headerCells, RN_DAYS), getIndex(headerCells, RN_NIGHTS))

colIdxOf(row) == colIdxOfCells(toUpperCaseAll(cellTextsOf(row)))

\* initialAssignments[index] = { room: roomNumberStr, prec: ..., ... }
gridRecord(cells, c, roomNumberStr) ==
  [room     |-> roomNumberStr,
   prec     |-> getCellText(cellAt(cells, c.prec)),
   patient  |-> getCellText(cellAt(cells, c.patient)),
   mrn      |-> getCellText(cellAt(cells, c.mrn)),
   status   |-> getCellText(cellAt(cells, c.status)),
   rnDay    |-> getCellText(cellAt(cells, c.rnDay)),
   extDay   |-> getCellText(cellAt(cells, c.extDay)),
   rnNight  |-> getCellText(cellAt(cells, c.rnNight)),
   extNight |-> getCellText(cellAt(cells, c.extNight))]

gridRowAt(assignments, cells, c, roomNumberStr, roomNumber) ==
  IF ~roomNumber.isNaN /\ roomNumber.n >= DefaultStartRoom
       /\ roomNumber.n <= DefaultEndRoom
  THEN [assignments EXCEPT ![roomNumber.n - DefaultStartRoom + 1] =
          gridRecord(cells, c, roomNumberStr)]
  ELSE assignments

gridRowText(assignments, cells, c, roomNumberStr) ==
  IF roomNumberStr = << >> THEN assignments
  ELSE gridRowAt(assignments, cells, c, roomNumberStr, parseInt(roomNumberStr))

\* One pass of mainGridBodyRows.forEach
gridRow(assignments, cells, c) ==
  gridRowText(assignments, cells, c, getCellText(cellAt(cells, c.rm)))

\* The rows from place i up to the end of the grid body
RECURSIVE gridRows(_, _, _, _, _)
gridRows(assignments, rows, i, gridBodyEndIndex, c) ==
  IF i >= gridBodyEndIndex THEN assignments
  ELSE gridRows(gridRow(assignments, rows[i + 1], c), rows, i + 1,
                gridBodyEndIndex, c)

\* if (colIdx.rm !== -1) mainGridBodyRows.forEach(...)
mainGrid(rows, gridHeader, gridBodyEndIndex, c) ==
  IF c.rm = -1 THEN defaultAssignments(DefaultStartRoom, DefaultEndRoom)
  ELSE gridRows(defaultAssignments(DefaultStartRoom, DefaultEndRoom), rows,
                gridHeader + 1, gridBodyEndIndex, c)

\* The last header cell whose text contains a marker: what the reduce leaves
\* in headerMap, -1 for undefined
lastIndex(headerCells, text) ==
  LET S == {i \in 0..(Len(headerCells) - 1) : includes(headerCells[i + 1], text)}
  IN  IF S = {} THEN -1 ELSE SetMax(S)

bottomList(dataRow, idx) ==
  IF idx = -1 THEN << >> ELSE extractListFromCell(cellAt(dataRow, idx))

bottomPartOf(headerCells, dataRow) ==
  [floats |-> [day   |-> bottomList(dataRow, lastIndex(headerCells, FLOATS_DAYS)),
               night |-> bottomList(dataRow, lastIndex(headerCells, FLOATS_NIGHTS))],
   respiratory |-> bottomList(dataRow, lastIndex(headerCells, RESPIRATORY))]

\* The "Parse Bottom Section" block
bottomPart(rows, bottomHeader) ==
  IF bottomHeader # -1 /\ Len(rows) - bottomHeader > 1
  THEN bottomPartOf(toUpperCaseAll(cellTextsOf(rows[bottomHeader + 1])),
                    rows[bottomHeader + 2])
  ELSE EmptyBottom

\* getRowTextFromCells of parseInfoTable: the cell texts joined by a space
rowTextOfCells(row) == join(cellTextsOf(row), <<" ">>)

\* rows.find(r => getRowTextFromCells(r).includes(marker)), as a row or none
findShiftRow(rows, marker) ==
  cellAt(rows, firstIndex({i \in 0..(Len(rows) - 1) :
                             includes(rowTextOfCells(rows[i + 1]), marker)}))

\* text.replace(/WORD:?/i, ''): the first place only
removeAt(text, word, p) ==
  IF p = 0 THEN text
  ELSE SubSeq(text, 1, p - 1)
         \o SubSeq(text,
                   p + Len(word)
                     + (IF p + Len(word) <= Len(text) /\ text[p + Len(word)] = ":"
                        THEN 1 ELSE 0),
                   Len(text))

removeWord(text, word) ==
  removeAt(text, word,
           leftmost({p \in 1..Len(text) : OccursAt(toUpperCase(text), word, p)}))

\* /\b\w+, \w+ \d{1,2}(st|nd|rd|th)?, \d{4}\b/ from the day number at q on
dayYearAt(s, q) ==
  \E n \in {1, 2} : \E o \in {0, 2} :
     /\ digitRun(s, q) >= n
     /\ o = 2 => (q + n + 1 <= Len(s) /\ SubSeq(s, q + n, q + n + 1) \in OrdinalSuffixes)
     /\ OccursAt(s, <<",", " ">>, q + n + o)
     /\ digitRun(s, q + n + o + 2) >= 4
     /\ ~(q + n + o + 6 <= Len(s) /\ IsWord(s[q + n + o + 6]))

monthWordAt(s, q) ==
  /\ wordRun(s, q) > 0
  /\ \E w \in 1..wordRun(s, q) :
       q + w <= Len(s) /\ s[q + w] = " " /\ dayYearAt(s, q + w + 1)

looksLikeDateAt(s, p) ==
  /\ boundaryBefore(s, p)
  /\ wordRun(s, p) > 0
  /\ OccursAt(s, <<",", " ">>, p + wordRun(s, p))
  /\ monthWordAt(s, p + wordRun(s, p) + 2)

looksLikeDate(s) == \E p \in 1..Len(s) : looksLikeDateAt(s, p)

startsWithDate(text) == OccursAt(toUpperCase(text), DATE, 1)

\* The text of the date cell of the day row: the cell that starts with DATE,
\* without that word, else the first cell that looks like a date, else ''
dateTextFrom(texts, dateAt, likeAt) ==
  IF dateAt # -1 THEN trim(removeWord(texts[dateAt + 1], DATE))
  ELSE IF likeAt # -1 THEN trim(texts[likeAt + 1])
  ELSE << >>

dateTextOf(texts) ==
  dateTextFrom(texts,
               firstIndex({i \in 0..(Len(texts) - 1) : startsWithDate(texts[i + 1])}),
               firstIndex({i \in 0..(Len(texts) - 1) : looksLikeDate(texts[i + 1])}))

\* Commas separate the words of a date as white space does
RECURSIVE commasToSpaces(_)
commasToSpaces(s) ==
  IF s = << >> THEN << >>
  ELSE <<IF Head(s) = "," THEN " " ELSE Head(s)>> \o commasToSpaces(Tail(s))

\* new Date(dateText), read in local time
newDate(text, tzo) == legacyDate(commasToSpaces(text), tzo)

\* `${year}-${month}-${day}` of getFullYear, getMonth and getDate: the day
\* in local time
localYMD(dv, tzo) ==
  formatYMD(civilFromDays(dv.t + (IF tzo > 0 THEN 1 ELSE 0)))

dateOfParsed(first, text, tzo) ==
  IF first.valid THEN <<localYMD(first, tzo)>>
  ELSE IF newDate(stripOrdinal(text), tzo).valid
  THEN <<localYMD(newDate(stripOrdinal(text), tzo), tzo)>>
  ELSE << >>

\* rosterPart.date: no text when no date was read
dateOfText(text, tzo) ==
  IF text = << >> THEN << >> ELSE dateOfParsed(newDate(text, tzo), text, tzo)

\* getCellText(pctCell).replace(/PCT'S:?/i, '').trim(), '' without such a cell
pctsOf(texts) ==
  trim(removeWord(getCellText(cellAt(texts,
         firstIndex({i \in 0..(Len(texts) - 1) :
                       includes(toUpperCase(texts[i + 1]), PCTS)}))), PCTS))

\* match[1] of /CHARGE NURSE:\s*(#?\S+)/ from the place p of the marker
badgeAt(text, q) == SubSeq(text, q, q + nonSpaceRun(text, q) - 1)

badgeFrom(text, p, otherwise) ==
  IF p = 0 THEN otherwise
  ELSE badgeAt(text, p + Len(CHARGE_NURSE_COLON)
                       + spaceRun(text, p + Len(CHARGE_NURSE_COLON)))

badgeOfCell(text, otherwise) ==
  badgeFrom(text,
            leftmost({p \in 1..Len(text) :
                        /\ OccursAt(text, CHARGE_NURSE_COLON, p)
                        /\ nonSpaceRun(text, p + Len(CHARGE_NURSE_COLON)
                                               + spaceRun(text, p + Len(CHARGE_NURSE_COLON))) > 0}),
            otherwise)

\* The charge nurse of a shift row: the cell with 'CHARGE NURSE:' decides
chargeNurseOf(texts, otherwise) ==
  LET S == {i \in 0..(Len(texts) - 1) : includes(texts[i + 1], CHARGE_NURSE_COLON)}
  IN  IF S = {} THEN otherwise ELSE badgeOfCell(texts[SetMin(S) + 1], otherwise)

\* if (rosterPart.pctsDay && !rosterPart.pctsNight) pctsNight = pctsDay
nightPcts(pctsDay, pctsNight) ==
  IF pctsNight = EmptyText THEN pctsDay ELSE pctsNight

infoPartOf(dayTexts, nightTexts, tzo) ==
  [date |-> IF dayTexts = << >> THEN << >> ELSE dateOfText(dateTextOf(dayTexts[1]), tzo),
   pctsDay |-> IF dayTexts = << >> THEN EmptyText ELSE pctsOf(dayTexts[1]),
   pctsNight |-> nightPcts(IF dayTexts = << >> THEN EmptyText ELSE pctsOf(dayTexts[1]),
                           IF nightTexts = << >> THEN EmptyText ELSE pctsOf(nightTexts[1])),
   chargeNurses |->
     [day   |-> IF dayTexts = << >> THEN EmptyText
                ELSE chargeNurseOf(dayTexts[1], EmptyText),
      night |-> IF nightTexts = << >> THEN EmptyText
                ELSE chargeNurseOf(nightTexts[1], EmptyText)]]

cellTextsOfRow(row) == IF row = << >> THEN << >> ELSE <<cellTextsOf(row[1])>>

\* parseInfoTable of services/docProcessor.ts
parseInfoTableByShift(table, tzo) ==
  infoPartOf(cellTextsOfRow(findShiftRow(table, DAY_SHIFT)),
             cellTextsOfRow(findShiftRow(table, NIGHT_SHIFT)), tzo)

\* tables.find(t => INFO_KEYWORDS.some(k => t.textContent.toUpperCase().includes(k)))
\* as the (1-based) place of the table, 0 for undefined
findInfoTable(ts) ==
  leftmost({i \in 1..Len(ts) :
              \E k \in INFO_KEYWORDS : includes(toUpperCase(textContent(ts[i])), k)})

\* The roster returned by parseRosterFromHtml of services/docProcessor.ts
scoredRoster(info, assignments, bottom, now) ==
  [date |-> orElse(info.date, now),
   pctsDay |-> info.pctsDay,
   pctsNight |-> info.pctsNight,
   chargeNurses |-> info.chargeNurses,
   assignments |-> assignments,
   floats |-> bottom.floats,
   respiratory |-> bottom.respiratory]

scoredFailure(message, info, rows, grid, bottom) ==
  [threw |-> TRUE, message |-> message, roster |-> NoRoster,
   infoTable |-> info, contentRows |-> rows,
   gridHeaderIndex |-> grid.index, maxGridScore |-> grid.score,
   bottomHeaderIndex |-> bottom.index, maxBottomScore |-> bottom.score]

\* From "Parse Main Grid" to the return, the two headers being settled
scoredParse(ts, info, rows, grid, bottom, bottomHeader, tzo, now) ==
  [threw |-> FALSE, message |-> "",
   roster |-> scoredRoster(parseInfoTableByShift(ts[info], tzo),
                           mainGrid(rows, grid.index,
                                    IF bottomHeader # -1 THEN bottomHeader ELSE Len(rows),
                                    colIdxOf(rows[grid.index + 1])),
                           bottomPart(rows, bottomHeader), now),
   infoTable |-> info, contentRows |-> rows,
   gridHeaderIndex |-> grid.index, maxGridScore |-> grid.score,
   bottomHeaderIndex |-> bottomHeader, maxBottomScore |-> bottom.score]

\* "Validate the findings"
scoredRows(ts, info, rows, grid, bottom, tzo, now) ==
  IF grid.index = -1 \/ grid.score < 3
  THEN scoredFailure(GridHeaderNotFound, info, rows, grid, bottom)
  ELSE scoredParse(ts, info, rows, grid, bottom, acceptBottom(grid, bottom), tzo, now)

scoredContent(ts, info, rows, tzo, now) ==
  scoredRows(ts, info, rows,
             bestRow(rows, GRID_HEADER_KEYWORDS, 0, NoBestRow),
             bestRow(rows, BOTTOM_HEADER_KEYWORDS, 0, NoBestRow), tzo, now)

scoredTables(ts, info, tzo, now) ==
  IF info = 0
  THEN scoredFailure(InfoTableNotFound, 0, << >>, NoBestRow, NoBestRow)
  ELSE scoredContent(ts, info, contentRowsOf(ts, info), tzo, now)

\* parseRosterFromHtml of services/docProcessor.ts, with its locals
parseRosterByScore(ts, tzo, now) ==
  IF Len(ts) < 2
  THEN scoredFailure(TooFewTables, 0, << >>, NoBestRow, NoBestRow)
  ELSE scoredTables(ts, findInfoTable(ts), tzo, now)

----------------------------------------------------------------------------
(* The rest of the dashboard at rest                                       *)

\* No call of the parser has been made in the session
NoCalls == calls = << >>

\* let gridHeaderIndex = -1 ... let maxBottomScore = 0
NoScores ==
  /\ gridHeaderIndex = -1 /\ bottomHeaderIndex = -1
  /\ maxGridScore = 0 /\ maxBottomScore = 0

\* App.tsx lines 91-97 with nothing in local storage, and no batch under way
AppIdle ==
  /\ isLoading = FALSE /\ appError = << >>
  /\ historicalRosters = << >> /\ runs = << >>

\* No roster has been handed to AssignmentGrid
GridIdle == heap = << >> /\ liveRoster = 0 /\ edit = << >>

\* No EditableCell is mounted
CellIdle ==
  /\ value = << >> /\ initialValue = << >> /\ focused = FALSE
  /\ onSaveCalls = << >> /\ keyed = "unmounted"

OthersIdle == NoCalls /\ NoScores /\ AppIdle /\ GridIdle /\ CellIdle

----------------------------------------------------------------------------
(* The state machine: a call of parseRosterFromHtml on a document          *)

Ready(ts, lo, hi, tzo) ==
  /\ phase = "ready"
  /\ tables = ts
  /\ startRoom = lo /\ endRoom = hi
  /\ tz = tzo /\ today = Today
  /\ infoTable = 0 /\ contentRows = << >>
  /\ headerRowIdx = -1 /\ colMap = NoColMap /\ gridEndIdx = -1
  /\ result = NoRoster /\ error = ""
  /\ dateText = << >> /\ dateOut = << >>
  /\ cellTexts = << >> /\ keyTexts = GridKeys /\ keyMap = NoColMap
  /\ OthersIdle

\* A two-table document: the info table, then one content table
InitGrid ==
  \E pre \in PrefixPool, body \in SeqsUpTo(BodyPool, MaxBody), r \in RoomRanges :
     Ready(<<InfoTableStd, pre \o body>>, r[1], r[2], 0)

\* Any tables in any order, parsed with the default room range
InitDoc ==
  \E ts \in SeqsUpTo(TablePool, MaxTables), tzo \in TimeZones :
     Ready(ts, DefaultStartRoom, DefaultEndRoom, tzo)

Init == InitGrid \/ InitDoc

ParseRoster ==
  /\ phase = "ready"
  /\ \E out \in {parseRosterFromHtml(tables, startRoom, endRoom, tz, today)} :
         /\ phase' = IF out.threw THEN "threw" ELSE "returned"
         /\ error' = out.message
         /\ result' = out.roster
         /\ infoTable' = out.infoTable
         /\ contentRows' = out.contentRows
         /\ headerRowIdx' = out.headerRowIdx
         /\ colMap' = out.colMap
         /\ gridEndIdx' = out.gridEndIdx
  /\ UNCHANGED <<tables, startRoom, endRoom, tz, today,
                 dateText, dateOut, cellTexts, keyTexts, keyMap, others>>

Next == ParseRoster

SpecGrid == InitGrid /\ [][Next]_vars
SpecDoc == InitDoc /\ [][Next]_vars
Spec == Init /\ [][Next]_vars

----------------------------------------------------------------------------
(* A call of parseDate on a text                                           *)

MaxFragments == 2

\* Pieces of text: dates in the three forms, matches of the three patterns
\* that are no calendar date, and plain words
LongFriday ==
  <<"F","r","i","d","a","y",","," ","A","p","r","i","l"," ","4","t","h",","," ","2","0","2","5">>
LongNoMonth ==
  <<"F","r","i",","," ","F","o","o"," ","4","t","h",","," ","2","0","2","5">>
IsoApril ==
  <<"2","0","2","5","-","0","4","-","0","4">>
IsoJanuary ==
  <<"2","0","2","5","-","0","1","-","0","2">>
IsoNoMonth ==
  <<"2","0","2","5","-","1","3","-","4","5">>
SlashMay ==
  <<"5","/","6","/","2","4">>
SlashNoMonth ==
  <<"1","3","/","4","5","/","2","0","2","5">>
PlainWords ==
  <<"s","h","i","f","t"," ","n","o","t","e","s">>

FragmentPool ==
  {LongFriday, LongNoMonth, IsoApril, IsoJanuary, IsoNoMonth, SlashMay,
   SlashNoMonth, PlainWords}

\* No roster call is in progress
NoRosterCall ==
  /\ tables = << >> /\ startRoom = DefaultStartRoom /\ endRoom = DefaultEndRoom
  /\ infoTable = 0 /\ contentRows = << >>
  /\ headerRowIdx = -1 /\ colMap = NoColMap /\ gridEndIdx = -1
  /\ result = NoRoster /\ error = ""
  /\ OthersIdle

InitDate ==
  \E fs \in SeqsUpTo(FragmentPool, MaxFragments), tzo \in TimeZones :
     /\ phase = "ready"
     /\ dateText = join(fs, <<" ">>) /\ dateOut = << >>
     /\ tz = tzo /\ today = Today
     /\ cellTexts = << >> /\ keyTexts = GridKeys /\ keyMap = NoColMap
     /\ NoRosterCall

ResolveDate ==
  /\ phase = "ready"
  /\ dateOut' = parseDate(dateText, tz, today)
  /\ phase' = "returned"
  /\ UNCHANGED <<tables, startRoom, endRoom, tz, today, infoTable, contentRows,
                 headerRowIdx, colMap, gridEndIdx, result, error,
                 dateText, cellTexts, keyTexts, keyMap, others>>

NextDate == ResolveDate

SpecDate == InitDate /\ [][NextDate]_vars

----------------------------------------------------------------------------
(* A call of autoMapHeaders on the texts of a header row                   *)

MaxCells == 3

RnDaysDrifted == <<"R","N"," ","D","a","y","'","s">>
RnDaysTabbed == <<"r","n","\t","d","a","y","s">>

HeaderTextPool ==
  { <<"R","O","O","M">>,
    <<"P","a","t","i","e","n","t">>,
    RnDaysDrifted,
    RnDaysTabbed,
    <<"M","R","N"," ","S","t","a","t","u","s">>,
    << >> }

\* The keys as the grid parser writes them, and the same keys written with
\* capitals and spaces
SpacedKeys ==
  [room     |-> <<"R","o","o","m">>,
   prec     |-> <<"P","r","e","c">>,
   patient  |-> <<"P","a","t","i","e","n","t">>,
   mrn      |-> <<"M","R","N">>,
   status   |-> <<"S","t","a","t","u","s">>,
   rnday    |-> <<"R","N"," ","D","a","y">>,
   extday   |-> <<"E","x","t"," ","D","a","y">>,
   rnnight  |-> <<"R","N"," ","N","i","g","h","t">>,
   extnight |-> <<"E","x","t"," ","N","i","g","h","t">>]

InitHeaders ==
  \E cells \in SeqsUpTo(HeaderTextPool, MaxCells), keys \in {GridKeys, SpacedKeys} :
     /\ phase = "ready"
     /\ cellTexts = cells /\ keyTexts = keys /\ keyMap = NoColMap
     /\ dateText = << >> /\ dateOut = << >>
     /\ tz = 0 /\ today = Today
     /\ NoRosterCall

MapHeaders ==
  /\ phase = "ready"
  /\ keyMap' = autoMapHeaders(cellTexts, keyTexts)
  /\ phase' = "returned"
  /\ UNCHANGED <<tables, startRoom, endRoom, tz, today, infoTable, contentRows,
                 headerRowIdx, colMap, gridEndIdx, result, error,
                 dateText, dateOut, cellTexts, keyTexts, others>>

NextHeaders == MapHeaders

SpecHeaders == InitHeaders /\ [][NextHeaders]_vars

----------------------------------------------------------------------------
(* A call of parseRosterFromHtml on a sheet: the info table, then one      *)
(* content table of a header row, body rows and footer rows                *)

MaxRows == 3

HeaderRoomPatient ==
  <<<<"R","o","o","m">>, <<"P","a","t","i","e","n","t">>>>

\* A body row with fewer cells than the header has columns
Short501 ==
  <<<<"5","0","1">>, <<"Q","."," ","L","o","w">>>>

Full502 ==
  <<<<"5","0","2">>, <<" ","F","."," ","K","i","m"," ">>, <<"#","7","5","0","3">>>>

\* A body row whose nurse comes from the CPU unit
Cpu502 ==
  <<<<"5","0","2">>, <<"C","."," ","R","a","y">>, <<"c","p","u">>>>

\* A footer row that carries both shift markers
FloatBothRow ==
  <<<<"F","l","o","a","t"," ","7","A","-","7","P"," ","7","P","-","7","A","\n"," ","I","k","e">>>>

FloatNightRow ==
  <<<<"F","l","o","a","t"," ","7","p","-","7","a","\n","C","y","\n"," ","\n","D","e","e">>>>

RespiratoryRow ==
  <<<<" ","E","v","e","\n","\n","G","u","s"," ">>, <<"R","e","s","p","i","r","a","t","o","r","y">>>>

SheetRowPool ==
  {Short501, Full502, Cpu502, FloatRow, FloatBothRow, FloatNightRow, RespiratoryRow}

InitSheet ==
  \E hdr \in {HeaderRow, HeaderRoomPatient}, rows \in SeqsUpTo(SheetRowPool, MaxRows) :
     Ready(<<InfoTableStd, <<hdr>> \o rows>>,
           DefaultStartRoom, DefaultStartRoom + MaxSpan - 1, 0)

SpecSheet == InitSheet /\ [][Next]_vars

----------------------------------------------------------------------------
(* A call of parseRosterFromHtml on a unit sheet: an info table of a few   *)
(* rows, then the grid of one header row and the row of room 512           *)

MaxInfoRows == 3

\* The charge nurse written as a badge number
ChargeBadgeDayRow ==
  <<<<"C","H","A","R","G","E"," ","N","U","R","S","E",":"," ","#","7","5","0","1">>,
    <<"7","A","-","7","P">>>>

InfoRowPool ==
  {ChargeBadgeDayRow, ChargeDayRow, ChargeNightRow, PctRow, DateRowFriday,
   DateRowUnparsable}

InitInfo ==
  \E rows \in SeqsUpTo(InfoRowPool, MaxInfoRows) :
     Ready(<<rows, GridTable>>, DefaultStartRoom, DefaultEndRoom, 0)

SpecInfo == InitInfo /\ [][Next]_vars

----------------------------------------------------------------------------
(* A session: calls of parseRosterFromHtml one after the other, on any     *)
(* documents, while the clock of the host goes on                          *)

MaxCalls == 3

\* The day after Today
Tomorrow == <<"2","0","2","6","-","0","1","-","1","6">>

DocUndated == <<InfoTableStd, GridTable>>
DocDated == <<InfoTableDated, GridTable>>
DocDateUnparsable == <<<<ChargeDayRow, DateRowUnparsable>>, GridTable>>
DocNoHeader == <<InfoTableStd, ContinuationTable>>
DocFooter == <<InfoTableStd, <<HeaderRow, Body501, FloatRow>>>>

DocumentPool == {DocUndated, DocDated, DocDateUnparsable, DocNoHeader, DocFooter}

InitCalls ==
  /\ phase = "ready"
  /\ tz = 0 /\ today = Today
  /\ dateText = << >> /\ dateOut = << >>
  /\ cellTexts = << >> /\ keyTexts = GridKeys /\ keyMap = NoColMap
  /\ NoRosterCall

\* One call of parseRosterFromHtml, from its first line to its return or its
\* throw; the session keeps what went in and what came out
ParseDocument ==
  /\ Len(calls) < MaxCalls
  /\ \E doc \in DocumentPool :
       \E out \in {parseRosterFromHtml(doc, startRoom, endRoom, tz, today)} :
         /\ tables' = doc
         /\ phase' = IF out.threw THEN "threw" ELSE "returned"
         /\ error' = out.message
         /\ result' = out.roster
         /\ infoTable' = out.infoTable
         /\ contentRows' = out.contentRows
         /\ headerRowIdx' = out.headerRowIdx
         /\ colMap' = out.colMap
         /\ gridEndIdx' = out.gridEndIdx
         /\ calls' = Append(calls, [tables |-> doc, today |-> today,
                                    threw |-> out.threw, message |-> out.message,
                                    roster |-> out.roster])
  /\ UNCHANGED <<startRoom, endRoom, tz, today,
                 dateText, dateOut, cellTexts, keyTexts, keyMap, scoreVars,
                 uiVars>>

\* Midnight passes between two calls
ClockAdvances ==
  /\ today = Today
  /\ today' = Tomorrow
  /\ UNCHANGED <<phase, tables, startRoom, endRoom, tz, infoTable, contentRows,
                 headerRowIdx, colMap, gridEndIdx, result, error,
                 dateText, dateOut, cellTexts, keyTexts, keyMap, calls, scoreVars,
                 uiVars>>

NextCalls == ParseDocument \/ ClockAdvances

SpecCalls == InitCalls /\ [][NextCalls]_vars

----------------------------------------------------------------------------
(* A call of parseRosterFromHtml of services/docProcessor.ts on a          *)
(* document: the info table, then one content table                        *)

MaxScoreRows == 3

ScoreInfoTable ==
  <<<<<<"C","H","A","R","G","E"," ","N","U","R","S","E",":"," ","#","7","5","0","1">>, <<"7","A","-","7","P">>, <<"P","C","T","'","S",":"," ","C","y">>>>,
    <<<<"C","H","A","R","G","E"," ","N","U","R","S","E",":"," ","B","o">>, <<"7","P","-","7","A">>>>>>

ScoreInfoDated ==
  <<<<<<"F","r","i","d","a","y",","," ","A","p","r","i","l"," ","4","t","h",","," ","2","0","2","5">>, <<"7","A","-","7","P">>, <<"T","e","a","m"," ","A">>>>>>

ScoreHeader4 ==
  <<<<"R","M">>, <<"P","R","E","C">>, <<"P","A","T","I","E","N","T">>, <<"R","N"," ","D","A","Y","S">>, <<"E","X","T">>, <<"R","N"," ","N","I","G","H","T","S">>, <<"E","X","T">>>>

ScoreHeader3 ==
  <<<<"R","m">>, <<"P","a","t","i","e","n","t">>, <<"R","n"," ","D","a","y","s">>>>

ScoreHeader2 ==
  <<<<"R","M">>, <<"P","A","T","I","E","N","T">>>>

\* A row with three keywords of the grid header and two of the footer header
ScoreHeaderMixed ==
  <<<<"R","M">>, <<"P","A","T","I","E","N","T">>, <<"R","N"," ","D","A","Y","S">>, <<"F","L","O","A","T","S"," ","(","D","A","Y","S",")">>, <<"F","L","O","A","T","S"," ","(","N","I","G","H","T","S",")">>>>

ScoreBody501 ==
  <<<<"5","0","1">>, <<"I","s","o">>, <<"A","."," ","P","o","e">>, <<"#","7","5","0","1">>, <<"1","1">>, <<"#","7","5","0","2">>, <<"1","2">>>>

ScoreBody502 ==
  <<<<"5","0","2">>, <<" ","B","."," ","R","o","e"," ">>, <<"#","7","5","0","3">>>>

BottomHeader3 ==
  <<<<"R","e","s","p","i","r","a","t","o","r","y"," ","T","h","e","r","a","p","i","s","t","s">>, <<"F","l","o","a","t","s"," ","(","D","a","y","s",")">>, <<"F","l","o","a","t","s"," ","(","N","i","g","h","t","s",")">>>>

BottomHeader1 ==
  <<<<"F","l","o","a","t","s"," ","(","D","a","y","s",")">>>>

BottomData ==
  <<<<" ","E","v","e","\n","\n","G","u","s"," ">>, <<"A","n","n">>, <<>>>>

ScoreRowPool ==
  {ScoreHeader4, ScoreHeader3, ScoreHeader2, ScoreHeaderMixed, ScoreBody501,
   ScoreBody502, BottomHeader3, BottomHeader1, BottomData}

\* The document of an info table and a content table; without rows there is
\* no content table
ScoreDocument(info, rows) == IF rows = << >> THEN <<info>> ELSE <<info, rows>>

InitScore ==
  \/ \E rows \in SeqsUpTo(ScoreRowPool, MaxScoreRows) :
        Ready(ScoreDocument(ScoreInfoTable, rows), DefaultStartRoom, DefaultEndRoom, 0)
  \/ \E rows \in SeqsUpTo(ScoreRowPool, 1), info \in {ScoreInfoDated, TitleTable} :
        Ready(<<info, <<ScoreHeader3, ScoreBody501>> \o rows>>,
              DefaultStartRoom, DefaultEndRoom, 9)

\* One call, from its first line to its return or its throw
ParseByScore ==
  /\ phase = "ready"
  /\ \E out \in {parseRosterByScore(tables, tz, today)} :
         /\ phase' = IF out.threw THEN "threw" ELSE "returned"
         /\ error' = out.message
         /\ result' = out.roster
         /\ infoTable' = out.infoTable
         /\ contentRows' = out.contentRows
         /\ gridHeaderIndex' = out.gridHeaderIndex
         /\ maxGridScore' = out.maxGridScore
         /\ bottomHeaderIndex' = out.bottomHeaderIndex
         /\ maxBottomScore' = out.maxBottomScore
  /\ UNCHANGED <<tables, startRoom, endRoom, tz, today,
                 headerRowIdx, colMap, gridEndIdx,
                 dateText, dateOut, cellTexts, keyTexts, keyMap, calls, uiVars>>

NextScore == ParseByScore

SpecScore == InitScore /\ [][NextScore]_vars

----------------------------------------------------------------------------
(* App.tsx: the batch import of handleFilesProcessing and the history      *)

\* The element of a one-element set: it names a value that is used in
\* several places, so that it is computed once
only(S) == CHOOSE x \in S : TRUE

\* JSON.stringify of one character of a string
quoteChar(c) ==
  IF c = "\"" THEN <<"\\", "\"">>
  ELSE IF c = "\\" THEN <<"\\", "\\">>
  ELSE IF c = "\n" THEN <<"\\", "n">>
  ELSE IF c = "\t" THEN <<"\\", "t">>
  ELSE <<c>>

\* JSON.stringify of a string
stringifyText(text) ==
  <<"\"">> \o flatMap([i \in 1..Len(text) |-> quoteChar(text[i])]) \o <<"\"">>

\* "key":"text"
stringifyField(key, text) == stringifyText(key) \o <<":">> \o stringifyText(text)

\* JSON.stringify of an AssignmentRow, its keys in the order of the literal
stringifyRow(row) ==
  only({<<"{">> \o join(fields, <<",">>) \o <<"}">> :
          fields \in {<<stringifyField(<<"r","o","o","m">>, row.room),
                        stringifyField(<<"p","r","e","c">>, row.prec),
                        stringifyField(<<"p","a","t","i","e","n","t">>, row.patient),
                        stringifyField(<<"m","r","n">>, row.mrn),
                        stringifyField(<<"s","t","a","t","u","s">>, row.status),
                        stringifyField(<<"r","n","D","a","y">>, row.rnDay),
                        stringifyField(<<"e","x","t","D","a","y">>, row.extDay),
                        stringifyField(<<"r","n","N","i","g","h","t">>, row.rnNight),
                        stringifyField(<<"e","x","t","N","i","g","h","t">>, row.extNight)>>}})

\* JSON.stringify(r.assignments)
stringifyAssignments(assignments) ==
  only({<<"[">> \o join(rows, <<",">>) \o <<"]">> :
          rows \in {[i \in 1..Len(assignments) |-> stringifyRow(assignments[i])]}})

\* r.date + JSON.stringify(r.assignments)
rosterKey(r) == r.date \o stringifyAssignments(r.assignments)

ErrorReadingFile == "Error reading file."
FailedToParseDocx ==
  "Failed to parse .docx file. It might be corrupted or in an unsupported format."

\* readDocxFile: the promise settles with the HTML or with an Error
readDocxFile(file) ==
  IF file.reads = "error"
  THEN [rejected |-> TRUE, message |-> ErrorReadingFile, html |-> << >>]
  ELSE IF file.reads = "corrupt"
  THEN [rejected |-> TRUE, message |-> FailedToParseDocx, html |-> << >>]
  ELSE [rejected |-> FALSE, message |-> "", html |-> file.html]

DotDocx == <<".","d","o","c","x">>

\* name.replace('.docx', ''): the first occurrence goes
withoutDocx(name, p) ==
  IF p = 0 THEN name
  ELSE SubSeq(name, 1, p - 1) \o SubSeq(name, p + Len(DotDocx), Len(name))

\* text.split(' ')[0]
firstPiece(text, p) == IF p = 0 THEN text ELSE SubSeq(text, 1, p - 1)

firstPieceOf(text) ==
  firstPiece(text, leftmost({p \in 1..Len(text) : text[p] = " "}))

\* file.name.replace('.docx', '').split(' ')[0]
dateOfName(name) ==
  firstPieceOf(withoutDocx(name,
     leftmost({p \in 1..Len(name) : OccursAt(name, DotDocx, p)})))

\* roster.date || file.name.replace('.docx', '').split(' ')[0] || today
datedRoster(roster, name, now) ==
  [roster EXCEPT !.date = orElse(<<roster.date>>, orElse(<<dateOfName(name)>>, now))]

\* `Failed to process "${file.name}": ${err.message || err}`
failedToProcess(name, message) == <<[file |-> name, message |-> message]>>

\* The body of the try of one file, the HTML being read
parsedFile(file, out, now) ==
  IF out.threw
  THEN [failed |-> TRUE, error |-> failedToProcess(file.name, out.message),
        roster |-> NoRoster]
  ELSE [failed |-> FALSE, error |-> << >>,
        roster |-> datedRoster(out.roster, file.name, now)]

readFile(file, read, tzo, now) ==
  IF read.rejected
  THEN [failed |-> TRUE, error |-> failedToProcess(file.name, read.message),
        roster |-> NoRoster]
  ELSE parsedFile(file, parseRosterByScore(read.html, tzo, now), now)

\* One pass of the loop over the files
processFile(file, tzo, now) == readFile(file, readDocxFile(file), tzo, now)

----------------------------------------------------------------------------
(* A session of App.tsx: batches dropped on FileUpload, which does not     *)
(* wait for the batch before, and the history cleared in between           *)

MaxFiles == 2

FileUnreadable ==
  [name |-> <<"a",".","d","o","c","x">>, reads |-> "error", html |-> << >>]

FileOneTable ==
  [name |-> <<"b",".","d","o","c","x">>, reads |-> "ok",
   html |-> <<ScoreInfoTable>>]

FileUndated ==
  [name |-> <<"c",".","d","o","c","x">>, reads |-> "ok",
   html |-> <<ScoreInfoTable, <<ScoreHeader4, ScoreBody501>>>>]

\* The sheet of FileUndated with its footer filled in
FileUndatedFloats ==
  [name |-> <<"d",".","d","o","c","x">>, reads |-> "ok",
   html |-> <<ScoreInfoTable,
              <<ScoreHeader4, ScoreBody501, BottomHeader3, BottomData>>>>]

FileDated ==
  [name |-> <<"e",".","d","o","c","x">>, reads |-> "ok",
   html |-> <<ScoreInfoDated, <<ScoreHeader3, ScoreBody502>>>>]

FilePool == {FileUnreadable, FileOneTable, FileUndated, FileUndatedFloats, FileDated}

\* The files handed over so far, batch by batch
filesOf(rs) == flatMap([k \in 1..Len(rs) |-> rs[k].files])

\* The pass of the loop over each file that can be dropped, at the offset
\* and on the day of the session
processFileAt ==
  [file \in FilePool, tzo \in {0}, now \in {Today} |-> processFile(file, tzo, now)]

\* The rosters a session can hold, and the key of each
PoolRosters == {processFileAt[file, 0, Today].roster : file \in FilePool}

rosterKeyAt == [r \in PoolRosters |-> rosterKey(r)]

\* rosters.map((r) => [r.date + JSON.stringify(r.assignments), r])
pairsOf(rosters) ==
  [i \in 1..Len(rosters) |-> [key |-> rosterKeyAt[rosters[i]], value |-> rosters[i]]]

\* The entries of a Map stand in the order in which their keys came in
mapSet_append(entries, pair) == Append(entries, pair)

\* Map.prototype.set: a key already there keeps its place and takes the value
mapSet(entries, pair) ==
  IF \E i \in 1..Len(entries) : entries[i].key = pair.key
  THEN [i \in 1..Len(entries) |->
          IF entries[i].key = pair.key THEN pair ELSE entries[i]]
  ELSE Append(entries, pair)

\* new Map(pairs), and rostersToAdd.forEach(r => newMap.set(...)), from place i
RECURSIVE mapSetAll(_, _, _)
mapSetAll(entries, pairs, i) ==
  IF i > Len(pairs) THEN entries
  ELSE only({mapSetAll(next, pairs, i + 1) : next \in {mapSet(entries, pairs[i])}})

\* Array.from(newMap.values())
mapValues(entries) == [i \in 1..Len(entries) |-> entries[i].value]

\* The characters of a date in the order of the collation
CollationOrder == <<"-","0","1","2","3","4","5","6","7","8","9">>

collationWeight(c) ==
  IF c \in Range(CollationOrder) THEN IndexOf(c, CollationOrder)
  ELSE Len(CollationOrder) + 1

\* a.localeCompare(b) on the texts of dates: -1, 0 or 1
RECURSIVE localeCompare(_, _)
localeCompare(a, b) ==
  IF a = << >> /\ b = << >> THEN 0
  ELSE IF a = << >> THEN -1
  ELSE IF b = << >> THEN 1
  ELSE IF collationWeight(Head(a)) < collationWeight(Head(b)) THEN -1
  ELSE IF collationWeight(Head(a)) > collationWeight(Head(b)) THEN 1
  ELSE localeCompare(Tail(a), Tail(b))

\* (a, b) => b.date.localeCompare(a.date)
byDateDescending(a, b) == localeCompare(b.date, a.date)

\* Array.prototype.sort is stable: r goes behind what does not sort after it
RECURSIVE insertSorted(_, _)
insertSorted(sorted, r) ==
  IF sorted = << >> THEN <<r>>
  ELSE IF byDateDescending(r, Head(sorted)) < 0 THEN <<r>> \o sorted
  ELSE <<Head(sorted)>> \o insertSorted(Tail(sorted), r)

RECURSIVE sortRosters(_, _, _)
sortRosters(sorted, rosters, i) ==
  IF i > Len(rosters) THEN sorted
  ELSE only({sortRosters(next, rosters, i + 1) :
               next \in {insertSorted(sorted, rosters[i])}})

\* The updater handed to setHistoricalRosters
mergeRosters(prev, rostersToAdd) ==
  only({sortRosters(<< >>, mapValues(newMap), 1) :
          newMap \in {mapSetAll(prevMap, added, 1) :
                        prevMap \in {mapSetAll(<< >>, pairs, 1) :
                                       pairs \in {pairsOf(prev)}},
                        added \in {pairsOf(rostersToAdd)}}})

\* The loop stands at its last file
atLastFile(run) == run.next + 1 = Len(run.files)

\* The invocation after the pass over its next file
runAfter(run, out) ==
  [run EXCEPT !.next = run.next + 1,
              !.rostersToAdd = IF out.failed THEN run.rostersToAdd
                               ELSE Append(run.rostersToAdd, out.roster),
              !.failed = IF out.failed
                         THEN Append(run.failed, run.files[run.next + 1].name)
                         ELSE run.failed,
              !.done = atLastFile(run)]

loadingAfter_kept(loading, run) == loading

\* setIsLoading(false) behind the loop
loadingAfter(loading, run) == IF run.done THEN FALSE ELSE loading

\* if (rostersToAdd.length) setHistoricalRosters(...)
historyAfter(prev, run) ==
  IF run.done /\ run.rostersToAdd # << >>
  THEN mergeRosters(prev, run.rostersToAdd)
  ELSE prev

InitApp == Ready(<< >>, DefaultStartRoom, DefaultEndRoom, 0)

\* An invocation that has not got anywhere yet; all tells the handler of
\* line 535, which waits for Promise.all, from the one of line 114
newRun(files, all) ==
  [files |-> files, next |-> 0, rostersToAdd |-> << >>, failed |-> << >>,
   done |-> FALSE, all |-> all]

\* The batches that may still be dropped
Droppable == SeqsUpTo(FilePool, MaxFiles - Len(filesOf(runs))) \ {<< >>}

\* handleFilesProcessing up to its first await
StartBatch ==
  /\ \A k \in 1..Len(runs) : ~runs[k].all
  /\ \E files \in Droppable : runs' = Append(runs, newRun(files, FALSE))
  /\ isLoading' = TRUE
  /\ appError' = << >>
  /\ UNCHANGED <<parserVars, calls, scoreVars, historicalRosters, gridVars, cellVars>>

\* readDocxFile settles for the file the k-th invocation waits for: the rest
\* of the pass and, behind the last file, the rest of the handler
FileSettles(k) ==
  /\ k \in 1..Len(runs)
  /\ ~runs[k].done /\ ~runs[k].all
  /\ \E out \in {processFileAt[runs[k].files[runs[k].next + 1], tz, today]} :
       \E run \in {runAfter(runs[k], out)} :
         /\ runs' = [runs EXCEPT ![k] = run]
         /\ appError' = IF out.failed THEN out.error ELSE appError
         /\ historicalRosters' = historyAfter(historicalRosters, run)
         /\ isLoading' = loadingAfter(isLoading, run)
  /\ UNCHANGED <<parserVars, calls, scoreVars, gridVars, cellVars>>

\* handleClearHistory, the question being answered with yes
ClearHistory ==
  /\ historicalRosters # << >>
  /\ historicalRosters' = << >>
  /\ UNCHANGED <<parserVars, calls, scoreVars, isLoading, appError, runs,
                 gridVars, cellVars>>

NextApp ==
  \/ StartBatch
  \/ \E k \in 1..MaxFiles : FileSettles(k)
  \/ ClearHistory

SpecApp == InitApp /\ [][NextApp]_vars

\* `Error processing files: ${err.message}. Please check file formats.`
errorProcessingFiles(message) == <<[file |-> EmptyText, message |-> message]>>

\* prevRosters.map(r => [r.date, r])
pairsByDate(rosters) ==
  [i \in 1..Len(rosters) |-> [key |-> rosters[i].date, value |-> rosters[i]]]

\* The updater of the handler of line 535: one roster for a date
mergeByDate(prevRosters, parsedRosters) ==
  only({sortRosters(<< >>, mapValues(newRostersMap), 1) :
          newRostersMap \in {mapSetAll(prevMap, parsed, 1) :
                                prevMap \in {mapSetAll(<< >>, pairs, 1) :
                                               pairs \in {pairsByDate(prevRosters)}},
                                parsed \in {pairsByDate(parsedRosters)}}})

\* The handler of line 535 up to its await
StartBatchAll ==
  /\ \A k \in 1..Len(runs) : runs[k].all
  /\ \E files \in Droppable : runs' = Append(runs, newRun(files, TRUE))
  /\ isLoading' = TRUE
  /\ appError' = << >>
  /\ UNCHANGED <<parserVars, calls, scoreVars, historicalRosters, gridVars, cellVars>>

\* Promise.all settles for the k-th invocation: it rejects with the error of
\* the file that failed first, whichever that is, or it brings every roster;
\* then the catch or the updater, and the finally
AllSettle(k) ==
  /\ k \in 1..Len(runs)
  /\ ~runs[k].done /\ runs[k].all
  /\ \E outs \in {[i \in 1..Len(runs[k].files) |->
                      processFileAt[runs[k].files[i], tz, today]]} :
       \/  /\ \E i \in 1..Len(outs) :
                /\ outs[i].failed
                /\ appError' = errorProcessingFiles(outs[i].error[1].message)
                /\ runs' = [runs EXCEPT ![k].done = TRUE,
                                        ![k].next = Len(outs),
                                        ![k].failed = <<runs[k].files[i].name>>]
           /\ UNCHANGED historicalRosters
       \/  /\ \A i \in 1..Len(outs) : ~outs[i].failed
           /\ runs' = [runs EXCEPT ![k].done = TRUE,
                                   ![k].next = Len(outs),
                                   ![k].rostersToAdd = [i \in 1..Len(outs) |-> outs[i].roster]]
           /\ historicalRosters' =
                 mergeByDate(historicalRosters, [i \in 1..Len(outs) |-> outs[i].roster])
           /\ UNCHANGED appError
  /\ isLoading' = FALSE
  /\ UNCHANGED <<parserVars, calls, scoreVars, gridVars, cellVars>>

\* The session of either handler
NextAppEither ==
  \/ NextApp
  \/ StartBatchAll
  \/ \E k \in 1..MaxFiles : AllSettle(k)

\* The promise of readDocxFile settles, the FileReader firing load or error,
\* and with it Promise.all
FairApp ==
  /\ InitApp /\ [][NextAppEither]_vars
  /\ \A k \in 1..MaxFiles : WF_vars(FileSettles(k)) /\ WF_vars(AllSettle(k))

----------------------------------------------------------------------------
(* components/AssignmentGrid.tsx: the edit handlers over the roster that   *)
(* App hands down.  Objects and arrays live in a heap and are named by     *)
(* their place in it, so that an object reached from two rosters is one    *)
(* object; a list of names (floats, respiratory) is only ever replaced     *)
(* whole and is kept as a value                                            *)

MaxGridRows == 2
MaxEdits == 2

BlankPcts ==
  <<"#","7","5","2","0",":"," ","5","0","1","-","5","1","6","\n","#","7","5","2","1",":"," ","5","1","7","-","5","3","2">>

\* createBlankRoster of App.tsx, of numRows rows: the rows, the array of
\* them, chargeNurses, floats, and the roster last
blankHeap(numRows, now) ==
  [i \in 1..numRows |-> defaultRow(DefaultStartRoom + i - 1)] \o
  <<[i \in 1..numRows |-> i],
    [day |-> <<"#","7","5","0","1">>, night |-> <<"#","7","5","0","1">>],
    [day |-> << >>, night |-> << >>],
    [date |-> now, pctsDay |-> BlankPcts, pctsNight |-> BlankPcts,
     chargeNurses |-> numRows + 2, assignments |-> numRows + 1,
     floats |-> numRows + 3, respiratory |-> << >>]>>

\* The roster an object of the heap stands for, all that it reaches included
valueOf(h, r) ==
  [date |-> h[r].date, pctsDay |-> h[r].pctsDay, pctsNight |-> h[r].pctsNight,
   chargeNurses |-> h[h[r].chargeNurses],
   assignments |-> [i \in 1..Len(h[h[r].assignments]) |-> h[h[h[r].assignments][i]]],
   floats |-> h[h[r].floats],
   respiratory |-> h[r].respiratory]

\* const newAssignments = [...roster.assignments];
\* newAssignments[rowIndex] = { ...newAssignments[rowIndex], [field]: newValue };
\* { ...roster, assignments: newAssignments }: three new objects, the roster last
handleCellChange(h, r, rowIndex, field, newValue) ==
  [heap |-> h \o <<[h[h[r].assignments] EXCEPT ![rowIndex] = Len(h) + 2],
                   [h[h[h[r].assignments][rowIndex]] EXCEPT ![field] = newValue],
                   [h[r] EXCEPT !.assignments = Len(h) + 1]>>,
   at |-> Len(h) + 3]

\* const newRoster = { ...roster }: a new object with the fields of the old
\* one, the objects they name being the same
spread(h, r) == Append(h, h[r])

\* The assignments of handleFieldChange, newRoster standing at place n
fieldSet(h, n, field, newValue) ==
  IF field = "chargeNurses.day"
  THEN [h EXCEPT ![h[n].chargeNurses].day = newValue]
  ELSE IF field = "chargeNurses.night"
  THEN [h EXCEPT ![h[n].chargeNurses].night = newValue]
  ELSE IF field = "pctsDay" THEN [h EXCEPT ![n].pctsDay = newValue]
  ELSE IF field = "pctsNight" THEN [h EXCEPT ![n].pctsNight = newValue]
  ELSE IF field = "date" THEN [h EXCEPT ![n].date = newValue]
  ELSE h

handleFieldChange(h, r, field, newValue) ==
  [heap |-> fieldSet(spread(h, r), Len(h) + 1, field, newValue),
   at |-> Len(h) + 1]

\* The assignments of handleListChange, newRoster standing at place n
listSet(h, n, listName, newValues) ==
  IF listName = "respiratory" THEN [h EXCEPT ![n].respiratory = newValues]
  ELSE IF listName = "floats.day"
  THEN [h EXCEPT ![h[n].floats].day = newValues]
  ELSE IF listName = "floats.night"
  THEN [h EXCEPT ![h[n].floats].night = newValues]
  ELSE h

handleListChange(h, r, listName, newValues) ==
  [heap |-> listSet(spread(h, r), Len(h) + 1, listName, newValues),
   at |-> Len(h) + 1]

\* What the cells of the grid can be given
CellFields == {"prec", "patient", "rnDay", "extNight"}
RosterFields == {"chargeNurses.day", "chargeNurses.night", "pctsDay",
                 "pctsNight", "date", "respiratory"}
ListNames == {"respiratory", "floats.day", "floats.night"}
TypedTexts == {<<"A","l">>, EmptyText}
TypedLists == {<<<<"E","v","e">>>>, << >>}

\* App renders AssignmentGrid with the blank roster of its first state
MountGrid ==
  /\ liveRoster = 0
  /\ heap' = blankHeap(MaxGridRows, today)
  /\ liveRoster' = MaxGridRows + 4
  /\ UNCHANGED <<parserVars, calls, scoreVars, appVars, edit, cellVars>>

\* onRosterChange is handleLiveRosterChange of App: the roster handed over
\* is the roster of the next render
HandleCellChange ==
  /\ liveRoster # 0 /\ Len(edit) < MaxEdits
  /\ \E rowIndex \in 1..MaxGridRows, field \in CellFields, newValue \in TypedTexts :
       \E out \in {handleCellChange(heap, liveRoster, rowIndex, field, newValue)} :
         /\ heap' = out.heap
         /\ liveRoster' = out.at
         /\ edit' = Append(edit, [handler |-> "handleCellChange", field |-> field,
                                  rowIndex |-> rowIndex, newValue |-> newValue])
  /\ UNCHANGED <<parserVars, calls, scoreVars, appVars, cellVars>>

HandleFieldChange ==
  /\ liveRoster # 0 /\ Len(edit) < MaxEdits
  /\ \E field \in RosterFields, newValue \in TypedTexts :
       \E out \in {handleFieldChange(heap, liveRoster, field, newValue)} :
         /\ heap' = out.heap
         /\ liveRoster' = out.at
         /\ edit' = Append(edit, [handler |-> "handleFieldChange", field |-> field,
                                  rowIndex |-> 0, newValue |-> newValue])
  /\ UNCHANGED <<parserVars, calls, scoreVars, appVars, cellVars>>

HandleListChange ==
  /\ liveRoster # 0 /\ Len(edit) < MaxEdits
  /\ \E listName \in ListNames, newValues \in TypedLists :
       \E out \in {handleListChange(heap, liveRoster, listName, newValues)} :
         /\ heap' = out.heap
         /\ liveRoster' = out.at
         /\ edit' = Append(edit, [handler |-> "handleListChange", field |-> listName,
                                  rowIndex |-> 0, newValue |-> newValues])
  /\ UNCHANGED <<parserVars, calls, scoreVars, appVars, cellVars>>

InitEdit == Ready(<< >>, DefaultStartRoom, DefaultEndRoom, 0)

NextEdit == MountGrid \/ HandleCellChange \/ HandleFieldChange \/ HandleListChange

SpecEdit == InitEdit /\ [][NextEdit]_vars

----------------------------------------------------------------------------
(* components/AssignmentGrid.tsx: one EditableCell.  value is the state of *)
(* the last render, which is what the handlers of that render see          *)

MaxSaves == 2

CellTexts == {EmptyText, <<"A","l">>, <<"B","o">>}

\* handleSave as the render with state v and prop initial made it
handleSave(saves, v, initial) == IF v # initial THEN Append(saves, v) ELSE saves

\* The cell is rendered for the first time: useState(initialValue)
MountCell ==
  /\ keyed = "unmounted"
  /\ \E initial \in CellTexts : initialValue' = initial /\ value' = initial
  /\ keyed' = "mounted"
  /\ UNCHANGED <<parserVars, calls, scoreVars, appVars, gridVars, focused, onSaveCalls>>

\* The parent renders the cell with another initialValue, and the effect of
\* line 17 sets the state to it
PropChanges ==
  /\ keyed # "unmounted"
  /\ \E initial \in CellTexts \ {initialValue} :
        initialValue' = initial /\ value' = initial
  /\ keyed' = "props"
  /\ UNCHANGED <<parserVars, calls, scoreVars, appVars, gridVars, focused, onSaveCalls>>

\* The user clicks into the input
Focus ==
  /\ keyed # "unmounted" /\ ~focused
  /\ focused' = TRUE /\ keyed' = "focus"
  /\ UNCHANGED <<parserVars, calls, scoreVars, appVars, gridVars,
                 value, initialValue, onSaveCalls>>

\* onChange={(e) => setValue(e.target.value)}, and the render that follows
Change ==
  /\ focused
  /\ \E typed \in CellTexts \ {value} : value' = typed
  /\ keyed' = "change"
  /\ UNCHANGED <<parserVars, calls, scoreVars, appVars, gridVars,
                 initialValue, focused, onSaveCalls>>

\* The input loses the focus to a click elsewhere: onBlur={handleSave}
Blur ==
  /\ focused /\ Len(onSaveCalls) < MaxSaves
  /\ onSaveCalls' = handleSave(onSaveCalls, value, initialValue)
  /\ focused' = FALSE /\ keyed' = "blur"
  /\ UNCHANGED <<parserVars, calls, scoreVars, appVars, gridVars, value, initialValue>>

\* handleKeyDown.  blur() runs the onBlur of the render on the screen before
\* the handler returns; the setValue of Escape is applied when it has
\* returned, so that handleSave still sees the value of that render
KeyDown ==
  /\ focused /\ Len(onSaveCalls) < MaxSaves
  /\ \E key \in {"Enter", "Escape", "Shift"} :
       /\ keyed' = key
       /\ value' = IF key = "Escape" THEN initialValue ELSE value
       /\ focused' = (key = "Shift")
       /\ onSaveCalls' = IF key = "Shift" THEN onSaveCalls
                         ELSE handleSave(onSaveCalls, value, initialValue)
  /\ UNCHANGED <<parserVars, calls, scoreVars, appVars, gridVars, initialValue>>

InitCell == Ready(<< >>, DefaultStartRoom, DefaultEndRoom, 0)

NextCell == MountCell \/ PropChanges \/ Focus \/ Change \/ Blur \/ KeyDown

SpecCell == InitCell /\ [][NextCell]_vars

----------------------------------------------------------------------------
(* Vocabulary of the properties                                            *)

Done == phase \in {"returned", "threw"}

\* Whether the text of a row contains a token, whatever its case
HasToken(row, token) == includes(toUpperCase(join(row, <<"\t">>)), token)

LooksLikeGridHeader(row) == HasToken(row, ROOM) /\ HasToken(row, PATIENT)

NoMarkerTable == \A t \in 1..Len(tables) : ~HasToken(flatMap(tables[t]), CHARGE_NURSE)

\* The (0-based) places in contentRows of the body rows of the grid
BodyIdx == (headerRowIdx + 1)..(gridEndIdx - 1)

\* The room a body row claims: the number its room cell starts with
RoomOf(i) == parseInt(getCellText(cellAt(contentRows[i + 1], colMap["room"])))

Claims(i, room) == ~RoomOf(i).isNaN /\ RoomOf(i).n = room

ClaimsInRange(i) ==
  ~RoomOf(i).isNaN /\ RoomOf(i).n >= startRoom /\ RoomOf(i).n <= endRoom

\* The text of the cell of a body row under the column mapped to a key
FieldOf(i, key) == getCellText(cellAt(contentRows[i + 1], colMap[key]))

IsDefaultSlot(rec, room) ==
  /\ rec.room = toString(room)
  /\ rec.prec = << >> /\ rec.patient = << >> /\ rec.mrn = << >>
  /\ rec.status = << >> /\ rec.rnDay = << >> /\ rec.extDay = << >>
  /\ rec.rnNight = << >> /\ rec.extNight = << >>

----------------------------------------------------------------------------
(* Properties                                                              *)

\* C1: whenever the parse returns a roster, assignments has exactly
\* endRoom - startRoom + 1 entries and entry i is the record of room
\* startRoom + i: its room field reads that number, however many, few,
\* duplicated or disordered the body rows are.
C1_OneRowPerRoom ==
  phase = "returned" =>
    /\ Len(result.assignments) = endRoom - startRoom + 1
    /\ \A k \in 1..Len(result.assignments) :
         parseInt(result.assignments[k].room) = Num(startRoom + k - 1)

\* C1 witness: a roster returned from body rows given out of room order
C1_Witness ==
  /\ phase = "returned"
  /\ \E i, j \in BodyIdx :
       /\ i < j /\ ClaimsInRange(i) /\ ClaimsInRange(j)
       /\ RoomOf(i).n > RoomOf(j).n

\* C2: in every returned roster the room string of slot i is the decimal text
\* of startRoom + i, whatever text the room cell of the source row held.
C2_RoomTextMatchesSlot ==
  phase = "returned" =>
    \A k \in 1..Len(result.assignments) :
      result.assignments[k].room = toString(startRoom + k - 1)

\* C3: if the input has tables but no content row whose text contains both
\* the room token and the patient token, the parse throws the header error
\* and returns no roster, whatever the info table and the other rows hold.
C3_NoHeaderAborts ==
  (Done /\ Len(tables) > 0
        /\ \A i \in 1..Len(contentRows) : ~LooksLikeGridHeader(contentRows[i]))
    => (phase = "threw" /\ error = HeaderNotFound /\ result = NoRoster)

\* C3 witness: the parse threw although the info table holds a row with both
\* tokens and the content rows are not empty
C3_Witness ==
  /\ phase = "threw"
  /\ infoTable > 0
  /\ \E i \in 1..Len(tables[infoTable]) : LooksLikeGridHeader(tables[infoTable][i])
  /\ contentRows # << >>

HeaderPresent == \E i \in 1..Len(contentRows) : LooksLikeGridHeader(contentRows[i])

ExpectedInfoTable ==
  IF NoMarkerTable THEN (IF Len(tables) > 0 THEN 1 ELSE 0)
  ELSE SetMin({t \in 1..Len(tables) : HasToken(flatMap(tables[t]), CHARGE_NURSE)})

GridHeaderInTables(T) ==
  \E t \in T : \E i \in 1..Len(tables[t]) : LooksLikeGridHeader(tables[t][i])

\* C5 as stated: the info table is the first table with the marker, else the
\* first table, and a document with a grid but no marked table still parses.
C5_FallbackAlwaysParses ==
  Done =>
    /\ infoTable = ExpectedInfoTable
    /\ (NoMarkerTable /\ GridHeaderInTables(1..Len(tables))) => phase = "returned"

\* C5 amended: the info table is the first table with the marker, else the
\* first table; selecting it never raises; a document with no marked table
\* parses to a roster exactly when a grid header row lies in a table other
\* than the first, which the fallback takes as the info table.
C5_FallbackParsesUnlessGridFirst ==
  Done =>
    /\ infoTable = ExpectedInfoTable
    /\ error # InfoTableUndefined
    /\ (NoMarkerTable /\ Len(tables) > 0) =>
         (phase = "returned" <=> GridHeaderInTables(2..Len(tables)))

\* C5 witness: a roster returned with the first, unmarked table as info table
C5_Witness ==
  /\ phase = "returned"
  /\ NoMarkerTable
  /\ infoTable = 1
  /\ Len(tables) >= 2

\* C6: a body row whose room cell reads an in-range room r and whose patient
\* cell reads p, with no later body row claiming r, gives
\* assignments[r - startRoom].patient = p, whatever its other cells hold.
C6_PatientRoundTrip ==
  phase = "returned" =>
    \A i \in BodyIdx :
      (ClaimsInRange(i) /\ ~\E j \in BodyIdx : j > i /\ Claims(j, RoomOf(i).n))
        => result.assignments[RoomOf(i).n - startRoom + 1].patient
             = FieldOf(i, "patient")

\* C6 witness: a placed row with a patient text and another non-empty cell
C6_Witness ==
  /\ phase = "returned"
  /\ \E i \in BodyIdx :
       /\ ClaimsInRange(i)
       /\ FieldOf(i, "patient") # << >>
       /\ FieldOf(i, "rnday") # << >>
       /\ result.assignments[RoomOf(i).n - startRoom + 1].patient
            = FieldOf(i, "patient")

\* C7: every slot whose room number no body row claims keeps its default
\* record: its own room number and every other field empty.
C7_UnclaimedSlotsDefault ==
  phase = "returned" =>
    \A k \in 1..Len(result.assignments) :
      (~\E i \in BodyIdx : Claims(i, startRoom + k - 1))
        => IsDefaultSlot(result.assignments[k], startRoom + k - 1)

\* C7 witness: one slot filled from a body row beside a slot left unclaimed
C7_Witness ==
  /\ phase = "returned"
  /\ \E i \in BodyIdx : ClaimsInRange(i)
  /\ \E k \in 1..Len(result.assignments) :
       ~\E i \in BodyIdx : Claims(i, startRoom + k - 1)

\* The header row followed by the body rows that claim an in-range room
RECURSIVE ClaimingRows(_)
ClaimingRows(i) ==
  IF i >= gridEndIdx THEN << >>
  ELSE (IF ClaimsInRange(i) THEN <<contentRows[i + 1]>> ELSE << >>)
         \o ClaimingRows(i + 1)

\* C8: body rows whose room cell is garbage, empty, missing or out of range
\* never make the parse raise and leave every slot as it would be without
\* them.
C8_GarbageRowsInert ==
  /\ (Done /\ HeaderPresent) => phase = "returned"
  /\ phase = "returned" =>
       result.assignments =
         fillAssignments(defaultAssignments(startRoom, endRoom),
                         ClaimingRows(headerRowIdx + 1), 0,
                         Len(ClaimingRows(headerRowIdx + 1)),
                         colMap, startRoom, endRoom)

\* C8 witness: a roster returned from a body with a row whose room is no
\* number and a row whose room is out of range
C8_Witness ==
  /\ phase = "returned"
  /\ \E i \in BodyIdx : RoomOf(i).isNaN
  /\ \E i \in BodyIdx : ~RoomOf(i).isNaN /\ ~ClaimsInRange(i)

\* The last body row claiming a room
LastClaiming(room) == SetMax({i \in BodyIdx : Claims(i, room)})

\* C9: when several body rows claim the same in-range room, every field of
\* the slot holds the value of the last such row; nothing of an earlier row
\* survives.
C9_LastRowWinsWholesale ==
  phase = "returned" =>
    \A k \in 1..Len(result.assignments) :
      (\E i \in BodyIdx : Claims(i, startRoom + k - 1)) =>
        LET i == LastClaiming(startRoom + k - 1)
            a == result.assignments[k]
        IN  /\ a.room = FieldOf(i, "room")
            /\ a.prec = FieldOf(i, "prec")
            /\ a.patient = FieldOf(i, "patient")
            /\ a.mrn = FieldOf(i, "mrn")
            /\ a.status = FieldOf(i, "status")
            /\ a.rnDay = FieldOf(i, "rnday")
            /\ a.extDay = FieldOf(i, "extday")
            /\ a.rnNight = FieldOf(i, "rnnight")
            /\ a.extNight = FieldOf(i, "extnight")

\* C9 witness: two body rows claim one room, the earlier with a cell filled
\* that the later leaves empty
C9_Witness ==
  /\ phase = "returned"
  /\ \E i, j \in BodyIdx :
       /\ i < j /\ ClaimsInRange(i) /\ Claims(j, RoomOf(i).n)
       /\ FieldOf(i, "patient") # FieldOf(j, "patient")
       /\ FieldOf(i, "rnday") # << >> /\ FieldOf(j, "rnday") = << >>

\* Whether a row carries a weekday-prefixed date that is a calendar date
CarriesDate(row) ==
  /\ longDateMatch(innerText(row)) # << >>
  /\ legacyDate(commaSpace(stripOrdinal(longDateMatch(innerText(row))[1])), tz).valid

DatedInfoRows ==
  {i \in 1..Len(tables[infoTable]) : CarriesDate(tables[infoTable][i])}

\* C10: the date of the roster is the date of the first info-table row that
\* carries a weekday-prefixed date, whatever dates the rest of the document
\* holds; the date resolved from the whole document text (today when there is
\* none) only when the info table carries none.
C10_DatePrecedence ==
  phase = "returned" =>
    result.date =
      IF DatedInfoRows # {}
      THEN parseDate(innerText(tables[infoTable][SetMin(DatedInfoRows)]), tz, today)
      ELSE parseDate(bodyInnerText(tables), tz, today)

----------------------------------------------------------------------------
(* Properties of parseDate                                                 *)

\* The match of the long pattern in the text is a calendar date
LongValid == longDate(longDateMatch(dateText), tz).valid

\* The match of the fallback patterns (the ISO one if any) is a calendar date
FallbackValid ==
  fallbackDate(isoMatch(dateText), slashMatch(dateText), tz).valid

\* C11: the patterns apply in a fixed priority whatever the order of the
\* dates in the text: a weekday-prefixed long date resolves the text to what
\* that date alone resolves to, even with ISO or slash dates around it; with
\* no long-form match, an ISO substring decides the result alone, whatever
\* slash dates the text holds.
C11_FixedPriority ==
  phase = "returned" =>
    /\ LongValid =>
          dateOut = parseDate(longDateMatch(dateText)[1], tz, today)
    /\ (longDateMatch(dateText) = << >> /\ isoMatch(dateText) # << >>) =>
          dateOut = parseDate(isoMatch(dateText)[1], tz, today)

\* C11 witness: a long date decided the result although an ISO date with
\* another day stands before it in the text
C11_Witness ==
  /\ phase = "returned"
  /\ dateText = IsoJanuary \o <<" ">> \o LongFriday
  /\ dateOut = parseDate(LongFriday, tz, today)
  /\ dateOut # parseDate(IsoJanuary, tz, today)

\* C12: the text resolves to exactly the calendar date written in it, in
\* YYYY-MM-DD form, for every host time zone: "Friday, April 4th, 2025" and
\* a text holding only "2025-04-04" both resolve to "2025-04-04".
C12_WrittenDateReturned ==
  phase = "returned" =>
    /\ dateText = LongFriday => dateOut = IsoApril
    /\ dateText = IsoApril => dateOut = IsoApril

\* YYYY-MM-DD
IsDateText(d) ==
  /\ Len(d) = 10
  /\ \A i \in {1, 2, 3, 4, 6, 7, 9, 10} : IsDigit(d[i])
  /\ d[5] = "-" /\ d[8] = "-"

\* The first pattern, in priority order, that matches the text matched
\* something that is no calendar date
FirstMatchInvalid ==
  IF longDateMatch(dateText) # << >> THEN ~LongValid
  ELSE (isoMatch(dateText) # << >> \/ slashMatch(dateText) # << >>)
         /\ ~FallbackValid

NoPatternMatches ==
  /\ longDateMatch(dateText) = << >>
  /\ isoMatch(dateText) = << >>
  /\ slashMatch(dateText) = << >>

\* C13 as stated: a date always comes back, and it is the current date when
\* no pattern matches or the first matching pattern matched no calendar date.
C13_TodayWhenFirstMatchInvalid ==
  phase = "returned" =>
    /\ IsDateText(dateOut)
    /\ (NoPatternMatches \/ FirstMatchInvalid) => dateOut = today

\* C13 amended: a date always comes back; it is the current date when neither
\* the long-form match nor the fallback match (the ISO one if any, else the
\* slash one) is a calendar date; a long-form match that is no calendar date
\* does not end the search, the fallback match then decides.
C13_TodayWhenNoValidDate ==
  phase = "returned" =>
    /\ IsDateText(dateOut)
    /\ (~LongValid /\ ~FallbackValid) => dateOut = today
    /\ (~LongValid /\ FallbackValid) =>
          dateOut = toISODate(fallbackDate(isoMatch(dateText),
                                           slashMatch(dateText), tz))

\* C13 witness: the current date came back for a text in which the long
\* pattern and the ISO pattern both match and neither match is a date
C13_Witness ==
  /\ phase = "returned"
  /\ longDateMatch(dateText) # << >> /\ ~LongValid
  /\ isoMatch(dateText) # << >> /\ ~FallbackValid
  /\ dateOut = today

----------------------------------------------------------------------------
(* Properties of autoMapHeaders                                            *)

\* A text in lower case with its white space removed
NormalText(t) == toLowerCase(stripSpace(t))

\* The (0-based) places of the header cells whose normal text contains the
\* normal text of a key
MatchingCells(k) ==
  {i \in 0..(Len(cellTexts) - 1) :
     includes(NormalText(cellTexts[i + 1]), NormalText(keyTexts[k]))}

\* C14: every key maps, independently of the others, to the smallest index
\* of a header cell whose normal text contains the normal key, and to -1 when
\* no cell does; a cell reading "RN Day's" with no day-nurse cell before it
\* gets the key rnday.
C14_SmallestMatchingIndex ==
  phase = "returned" =>
    /\ \A k \in DOMAIN keyTexts :
         keyMap[k] = IF MatchingCells(k) = {} THEN -1
                     ELSE SetMin(MatchingCells(k))
    /\ \A i \in 1..Len(cellTexts) :
         (cellTexts[i] = RnDaysDrifted
            /\ \A j \in 1..(i - 1) :
                 cellTexts[j] \notin {RnDaysDrifted, RnDaysTabbed})
           => keyMap["rnday"] = i - 1

\* C14 witness: "RN Day's" in the third cell got the key rnday, one cell got
\* two keys and one key got none
C14_Witness ==
  /\ phase = "returned"
  /\ Len(cellTexts) = 3 /\ cellTexts[3] = RnDaysDrifted
  /\ keyMap["rnday"] = 2
  /\ keyMap["mrn"] >= 0 /\ keyMap["mrn"] = keyMap["status"]
  /\ keyMap["room"] = -1

----------------------------------------------------------------------------
(* Properties of the grid body and the footer                              *)

\* The field of an assignment record a key fills
SlotField(rec, key) ==
  CASE key = "prec" -> rec.prec
    [] key = "patient" -> rec.patient
    [] key = "mrn" -> rec.mrn
    [] key = "status" -> rec.status
    [] key = "rnday" -> rec.rnDay
    [] key = "extday" -> rec.extDay
    [] key = "rnnight" -> rec.rnNight
    [] key = "extnight" -> rec.extNight

FieldKeys == DOMAIN GridKeys \ {"room"}

\* The body rows placed and not overwritten later
PlacedRows ==
  {i \in BodyIdx :
     ClaimsInRange(i) /\ ~\E j \in BodyIdx : j > i /\ Claims(j, RoomOf(i).n)}

\* The column of a key is unmapped, or the row has no cell at it
NoCellFor(i, key) ==
  colMap[key] = -1 \/ colMap[key] >= Len(contentRows[i + 1])

\* C15: when a key other than room is not found in the header, or a body
\* row has no cell at the mapped column, the field is the empty text in the
\* placed row, no error is raised, and the other fields still hold the
\* trimmed texts of their cells.
C15_MissingColumnGivesEmptyField ==
  /\ (Done /\ HeaderPresent) => phase = "returned"
  /\ phase = "returned" =>
       \A i \in PlacedRows : \A key \in FieldKeys :
         SlotField(result.assignments[RoomOf(i).n - startRoom + 1], key)
           = IF NoCellFor(i, key) THEN << >>
             ELSE trim(contentRows[i + 1][colMap[key] + 1])

\* C15 witness: a placed row with a field of an unmapped key, a field whose
\* mapped column lies past the row's last cell, and a field read from a cell
C15_Witness ==
  /\ phase = "returned"
  /\ \E i \in PlacedRows :
       /\ colMap["mrn"] = -1
       /\ colMap["rnday"] >= Len(contentRows[i + 1])
       /\ ~NoCellFor(i, "patient")
       /\ result.assignments[RoomOf(i).n - startRoom + 1].patient # << >>
       /\ result.assignments[RoomOf(i).n - startRoom + 1].rnDay = << >>

\* The (0-based) place of the first content row after the header whose text
\* contains one of the tokens, the number of rows if there is none
FirstRowWith(words) ==
  LET S == {i \in 0..(Len(contentRows) - 1) :
              i > headerRowIdx
                /\ \E t \in words : HasToken(contentRows[i + 1], t)}
  IN  IF S = {} THEN Len(contentRows) ELSE SetMin(S)

\* The assignments made from the rows strictly between the header and a
\* boundary
PlacedUpTo(boundary) ==
  fillAssignments(defaultAssignments(startRoom, endRoom), contentRows,
                  headerRowIdx + 1, boundary, colMap, startRoom, endRoom)

\* C16 as stated: the grid body ends exactly at the first row after the
\* header whose text contains a float or respiratory keyword, or at the end
\* of the rows: the rows before that boundary are the ones placed, and no
\* row at or after it fills a slot.
C16_BodyEndsAtFloatOrRespiratory ==
  phase = "returned" =>
    /\ gridEndIdx = FirstRowWith({FLOAT, RESPIRATORY})
    /\ result.assignments = PlacedUpTo(FirstRowWith({FLOAT, RESPIRATORY}))

\* C16 amended: the boundary is the first row after the header whose text
\* contains FLOAT, RESPIRATORY or CPU, in any case.
C16_BodyEndsAtFooterKeyword ==
  phase = "returned" =>
    /\ gridEndIdx = FirstRowWith({FLOAT, RESPIRATORY, CPU})
    /\ result.assignments = PlacedUpTo(FirstRowWith({FLOAT, RESPIRATORY, CPU}))

\* C16 witness: a row naming an in-range room stands after the boundary, a
\* row with the CPU keyword, and its slot is still the default one
C16_Witness ==
  /\ phase = "returned"
  /\ gridEndIdx < Len(contentRows)
  /\ HasToken(contentRows[gridEndIdx + 1], CPU)
  /\ ~HasToken(contentRows[gridEndIdx + 1], FLOAT)
  /\ \E i \in (gridEndIdx + 1)..(Len(contentRows) - 1) :
       /\ ClaimsInRange(i)
       /\ IsDefaultSlot(result.assignments[RoomOf(i).n - startRoom + 1], RoomOf(i).n)

\* The (0-based) places of the footer rows whose text contains every one of
\* the words
FooterRowsWith(words) ==
  {i \in 0..(Len(contentRows) - 1) :
     i >= gridEndIdx /\ \A t \in words : HasToken(contentRows[i + 1], t)}

\* The lines of a text, each trimmed, without the ones that are empty
NonBlankLines(text) ==
  LET ls == splitLines(text)
  IN  SelectSeq([k \in 1..Len(ls) |-> trim(ls[k])], LAMBDA t : t # << >>)

\* The list a footer row gives: the lines of its first cell
ListOfRow(i) ==
  IF Len(contentRows[i + 1]) = 0 THEN << >>
  ELSE NonBlankLines(trim(contentRows[i + 1][1]))

\* The list left by the last of the rows S, empty when there is none
ListOfLast(S) == IF S = {} THEN << >> ELSE ListOfRow(SetMax(S))

NoBlankEntry(list) ==
  \A k \in 1..Len(list) : list[k] # << >> /\ trim(list[k]) = list[k]

\* C17: each footer row with the float marker and the day-shift marker sets
\* floats.day to the trimmed non-empty lines of its first cell, likewise
\* floats.night with the night-shift marker and respiratory with the
\* respiratory marker; a list with no such row is empty and no list holds a
\* blank entry.
C17_FooterLists ==
  phase = "returned" =>
    /\ result.floats.day = ListOfLast(FooterRowsWith({FLOAT, DAY_SHIFT}))
    /\ result.floats.night = ListOfLast(FooterRowsWith({FLOAT, NIGHT_SHIFT}))
    /\ result.respiratory = ListOfLast(FooterRowsWith({RESPIRATORY}))
    /\ NoBlankEntry(result.floats.day)
    /\ NoBlankEntry(result.floats.night)
    /\ NoBlankEntry(result.respiratory)

\* C17 witness: two footer rows with the day marker give different lists, the
\* later one is kept, and the first cell of the respiratory row has a blank
\* line that the list leaves out
C17_Witness ==
  /\ phase = "returned"
  /\ \E i, j \in FooterRowsWith({FLOAT, DAY_SHIFT}) :
       i < j /\ ListOfRow(i) # ListOfRow(j) /\ result.floats.day = ListOfRow(j)
  /\ \E i \in FooterRowsWith({RESPIRATORY}) :
       /\ Len(splitLines(trim(contentRows[i + 1][1]))) > Len(result.respiratory)
       /\ Len(result.respiratory) > 0

----------------------------------------------------------------------------
(* Properties of the returned roster                                       *)

\* The characters of the texts of a sheet
TextChars ==
  LowerSet \cup UpperSet \cup DigitSet
    \cup {" ", "\t", "\n", ",", ".", ":", ";", "#", "-", "'", "/", "_"}

\* A string: a sequence of characters, the empty one included
IsString(t) == \A k \in 1..Len(t) : t[k] \in TextChars

\* A list of strings, the empty one included
IsStringList(list) == \A k \in 1..Len(list) : IsString(list[k])

\* C18: every returned roster is structurally complete: date is a non-empty
\* string, pctsDay, pctsNight, chargeNurses.day and chargeNurses.night are
\* strings, the empty one when not found, and floats.day, floats.night and
\* respiratory are lists.
C18_RosterComplete ==
  phase = "returned" =>
    /\ DOMAIN result = {"date", "pctsDay", "pctsNight", "chargeNurses",
                        "assignments", "floats", "respiratory"}
    /\ IsString(result.date) /\ Len(result.date) > 0
    /\ IsString(result.pctsDay) /\ IsString(result.pctsNight)
    /\ DOMAIN result.chargeNurses = {"day", "night"}
    /\ IsString(result.chargeNurses.day) /\ IsString(result.chargeNurses.night)
    /\ DOMAIN result.floats = {"day", "night"}
    /\ IsStringList(result.floats.day) /\ IsStringList(result.floats.night)
    /\ IsStringList(result.respiratory)

\* C18 witness: the info table has a night charge nurse and nothing else, so
\* that the date, the PCT fields and the day charge nurse are not found
C18_Witness ==
  /\ phase = "returned"
  /\ Len(tables[infoTable]) > 0
  /\ \A k \in 1..Len(tables[infoTable]) : ~HasToken(tables[infoTable][k], PCT)
  /\ result.date = today
  /\ result.pctsDay = EmptyText /\ result.pctsNight = EmptyText
  /\ result.chargeNurses.day = EmptyText
  /\ result.chargeNurses.night # EmptyText
  /\ result.floats.day = << >> /\ result.respiratory = << >>

----------------------------------------------------------------------------
(* Properties of the charge nurse fields                                   *)

\* The rows of the info table whose text contains the charge nurse marker
\* and a shift marker
ChargeRows(shift) ==
  {k \in 1..Len(tables[infoTable]) :
     HasToken(tables[infoTable][k], CHARGE_NURSE)
       /\ HasToken(tables[infoTable][k], shift)}

\* The place after the first "CHARGE NURSE:" of a text and the white space
\* that follows it
AfterMarker(s) ==
  chargeNameStart(s, leftmost({p \in 1..Len(s) :
                                 OccursAt(toUpperCase(s), CHARGE_NURSE_COLON, p)}))

\* The token at place q: word characters with an optional leading '#'
BadgeTokenAt(s, q) ==
  IF q <= Len(s) /\ s[q] = "#"
  THEN SubSeq(s, q, q + wordRun(s, q + 1))
  ELSE SubSeq(s, q, q + wordRun(s, q) - 1)

TokenOfRow(k) ==
  BadgeTokenAt(innerText(tables[infoTable][k]),
               AfterMarker(innerText(tables[infoTable][k])))

Badge7501 == <<"#","7","5","0","1">>

\* C19: when a row of the info table contains the charge nurse marker and a
\* shift marker, the charge nurse of that shift is the token that follows the
\* marker, word characters with an optional leading '#': "CHARGE NURSE: #7501"
\* with the day-shift marker gives chargeNurses.day = "#7501".
C19_ChargeNurseToken ==
  phase = "returned" =>
    /\ ChargeRows(DAY_SHIFT) # {} =>
         result.chargeNurses.day = TokenOfRow(SetMax(ChargeRows(DAY_SHIFT)))
    /\ ChargeRows(NIGHT_SHIFT) # {} =>
         result.chargeNurses.night = TokenOfRow(SetMax(ChargeRows(NIGHT_SHIFT)))
    /\ tables[infoTable] = <<ChargeBadgeDayRow>> =>
         result.chargeNurses.day = Badge7501

\* The row of room 512 of the unit sheet
Row512 ==
  [room |-> <<"5","1","2">>, prec |-> EmptyText,
   patient |-> <<"J","."," ","D","o","e">>, mrn |-> EmptyText,
   status |-> EmptyText, rnDay |-> <<"#","7","5","0","2">>,
   extDay |-> EmptyText, rnNight |-> EmptyText, extNight |-> EmptyText]

\* The assignments of the unit sheet: room 512 filled, every other slot default
UnitSheetAssignments ==
  /\ Len(result.assignments) = endRoom - startRoom + 1
  /\ \A k \in 1..Len(result.assignments) :
       IF startRoom + k - 1 = RoomOf(1).n
       THEN result.assignments[k] = Row512
       ELSE IsDefaultSlot(result.assignments[k], startRoom + k - 1)

\* C20: the document of two tables, the first with "CHARGE NURSE: #7501" and
\* "7A-7P", the second with the header ROOM | PATIENT | RN DAYS and the row
\* 512 | J. Doe | #7502, parses to a roster with chargeNurses.day = "#7501",
\* the slot of room 512 holding room "512", patient "J. Doe", rnDay "#7502"
\* and nothing else, and every other slot default.
C20_UnitSheetEndToEnd ==
  (phase # "ready" /\ tables = <<<<ChargeBadgeDayRow>>, GridTable>>) =>
    /\ phase = "returned"
    /\ result.chargeNurses.day = Badge7501
    /\ UnitSheetAssignments

----------------------------------------------------------------------------
(* Properties of a session of calls                                        *)

\* A date is present in a document: one of the patterns of parseDate matches
\* its text and the match is a calendar date
HasDate(ts) ==
  \/ longDate(longDateMatch(bodyInnerText(ts)), tz).valid
  \/ fallbackDate(isoMatch(bodyInnerText(ts)), slashMatch(bodyInnerText(ts)), tz).valid

SameOutcome(a, b) ==
  a.threw = b.threw /\ a.message = b.message /\ a.roster = b.roster

----------------------------------------------------------------------------
(* Properties of the content rows                                          *)

\* The number of content rows that come before those of table t
RECURSIVE RowsBefore(_)
RowsBefore(t) ==
  IF t <= 1 THEN 0
  ELSE RowsBefore(t - 1) + (IF t - 1 = infoTable THEN 0 ELSE Len(tables[t - 1]))

ContentTables == {t \in 1..Len(tables) : t # infoTable}

\* A grid split by the conversion: the header and the row of room 512 in one
\* table, the row of room 513 in a later one
SplitGrid ==
  \E t, u \in ContentTables :
     t < u /\ tables[t] = GridTable /\ tables[u] = ContinuationTable

\* C22: the content rows are the rows of every table other than the info
\* table, each once, in document order, and no row of the info table; a grid
\* whose header is in one table and whose body goes on in a following table
\* is parsed as one grid.
C22_ContentRowsFlattened ==
  Done =>
    /\ Len(contentRows) = RowsBefore(Len(tables) + 1)
    /\ \A t \in ContentTables : \A k \in 1..Len(tables[t]) :
         contentRows[RowsBefore(t) + k] = tables[t][k]
    /\ (phase = "returned" /\ SplitGrid) =>
         /\ result.assignments[slotIndex(parseInt(Body512[1]), startRoom) + 1].patient = Body512[2]
         /\ result.assignments[slotIndex(parseInt(Body513[1]), startRoom) + 1].patient = Body513[2]

\* C22 witness: the info table stands between the two tables of a split grid
\* and both rows of the grid are placed
C22_Witness ==
  /\ phase = "returned"
  /\ infoTable = 2 /\ Len(tables) = 3
  /\ SplitGrid
  /\ Len(contentRows) = Len(tables[1]) + Len(tables[3])
  /\ result.assignments[slotIndex(parseInt(Body513[1]), startRoom) + 1].patient = Body513[2]

\* C23: when one row of the info table carries the day-shift marker and the
\* charge nurse marker followed by a token a, and a different row the
\* night-shift marker and the charge nurse marker followed by a token b, the
\* roster has chargeNurses.day = a and chargeNurses.night = b, whatever the
\* order of the two rows and whatever rows stand before, between and after
\* them; a row without the charge nurse marker clears nothing.
C23_ChargeNursesFromTwoRows ==
  phase = "returned" =>
    \A d \in ChargeRows(DAY_SHIFT), n \in ChargeRows(NIGHT_SHIFT) :
       (d # n /\ ChargeRows(DAY_SHIFT) = {d} /\ ChargeRows(NIGHT_SHIFT) = {n}) =>
         /\ result.chargeNurses.day = TokenOfRow(d)
         /\ result.chargeNurses.night = TokenOfRow(n)

----------------------------------------------------------------------------
(* Properties of the header detection of services/docProcessor.ts          *)

\* Some table carries a keyword of the info table
InfoTablePresent ==
  \E t \in 1..Len(tables) : \E k \in INFO_KEYWORDS :
     includes(toUpperCase(textContent(tables[t])), k)

\* The call got as far as the detection of the headers
DetectionReached == Done /\ Len(tables) >= 2 /\ InfoTablePresent

\* The number of keywords in the text of the content row at (0-based) place i
ScoreOf(i, keywords) ==
  Cardinality({k \in keywords :
                 includes(getRowTextFromCells(contentRows[i + 1]), k)})

MaxScore(keywords) ==
  IF contentRows = << >> THEN 0
  ELSE SetMax({ScoreOf(i, keywords) : i \in 0..(Len(contentRows) - 1)})

\* The earliest row with the maximum score
EarliestBest(keywords) ==
  SetMin({i \in 0..(Len(contentRows) - 1) :
            ScoreOf(i, keywords) = MaxScore(keywords)})

\* The room a content row claims under the RM column of the chosen header
RoomUnderHeader(j) ==
  parseInt(getCellText(cellAt(contentRows[j + 1],
                              colIdxOf(contentRows[gridHeaderIndex + 1]).rm)))

ClaimsSlot(j, k) ==
  /\ ~RoomUnderHeader(j).isNaN
  /\ RoomUnderHeader(j).n = DefaultStartRoom + k - 1

\* Every slot that is not default was claimed by one of the rows J
OnlyPopulatedBy(J) ==
  \A k \in 1..Len(result.assignments) :
     \/ IsDefaultSlot(result.assignments[k], DefaultStartRoom + k - 1)
     \/ \E j \in J : ClaimsSlot(j, k)

\* C24: the grid header of services/docProcessor.ts is the earliest content
\* row with the maximum number of the keywords RM, PATIENT, RN DAYS and
\* RN NIGHTS; the parse aborts with the grid-header error exactly when that
\* maximum is below 3, and no row before the header populates a slot.
C24_HeaderByScore ==
  DetectionReached =>
    /\ maxGridScore = MaxScore(GRID_HEADER_KEYWORDS)
    /\ (phase = "threw" /\ error = GridHeaderNotFound)
         <=> MaxScore(GRID_HEADER_KEYWORDS) < 3
    /\ phase = "returned" =>
         /\ gridHeaderIndex = EarliestBest(GRID_HEADER_KEYWORDS)
         /\ OnlyPopulatedBy((gridHeaderIndex + 1)..(Len(contentRows) - 1))

\* C24 witness: two rows have the maximum score, the earlier one is the
\* header, and the row of a room before it left its slot default
C24_Witness ==
  /\ phase = "returned"
  /\ gridHeaderIndex >= 1
  /\ \E j \in (gridHeaderIndex + 1)..(Len(contentRows) - 1) :
       ScoreOf(j, GRID_HEADER_KEYWORDS) = maxGridScore
  /\ \E i \in 0..(gridHeaderIndex - 1) : \E k \in 1..Len(result.assignments) :
       /\ ClaimsSlot(i, k)
       /\ IsDefaultSlot(result.assignments[k], DefaultStartRoom + k - 1)

\* The rows of the grid body that claim slot k, the footer header being at b
\* (the number of rows when there is none)
ClaimingUpTo(k, b) ==
  {j \in (gridHeaderIndex + 1)..(b - 1) : ClaimsSlot(j, k)}

\* C25: the footer header of services/docProcessor.ts is accepted only if it
\* is another row than the grid header, after it, with at least 2 footer
\* keywords; without an accepted footer header the three lists are empty and
\* the grid body goes to the last content row; with one, no row at or after
\* it populates a slot.
C25_FooterHeaderAccepted ==
  phase = "returned" =>
    /\ bottomHeaderIndex # -1 =>
         /\ bottomHeaderIndex = EarliestBest(BOTTOM_HEADER_KEYWORDS)
         /\ bottomHeaderIndex > gridHeaderIndex
         /\ ScoreOf(bottomHeaderIndex, BOTTOM_HEADER_KEYWORDS) >= 2
         /\ OnlyPopulatedBy((gridHeaderIndex + 1)..(bottomHeaderIndex - 1))
    /\ bottomHeaderIndex = -1 =>
         /\ result.floats.day = << >> /\ result.floats.night = << >>
         /\ result.respiratory = << >>
         /\ \A k \in 1..Len(result.assignments) :
              ClaimingUpTo(k, Len(contentRows)) # {} =>
                ~IsDefaultSlot(result.assignments[k], DefaultStartRoom + k - 1)

\* C25 witness: a footer header is accepted, the row after it gives a list
\* and names a room, and the slot of that room is default
C25_Witness ==
  /\ phase = "returned"
  /\ bottomHeaderIndex # -1
  /\ result.respiratory # << >>
  /\ \E j \in bottomHeaderIndex..(Len(contentRows) - 1) :
       \E k \in 1..Len(result.assignments) :
          /\ ClaimsSlot(j, k)
          /\ IsDefaultSlot(result.assignments[k], DefaultStartRoom + k - 1)

\* A footer candidate is turned down for its score alone
C25_RejectedWitness ==
  /\ phase = "returned"
  /\ bottomHeaderIndex = -1
  /\ maxBottomScore = 1
  /\ EarliestBest(BOTTOM_HEADER_KEYWORDS) > gridHeaderIndex
  /\ \E k \in 1..Len(result.assignments) :
       ClaimingUpTo(k, Len(contentRows)) \cap
         (EarliestBest(BOTTOM_HEADER_KEYWORDS)..Len(contentRows)) # {}

----------------------------------------------------------------------------
(* Properties of the batch import of App.tsx                               *)

\* The step ends the k-th invocation of handleFilesProcessing
BatchEnds(k) == k \in 1..Len(runs) /\ ~runs[k].done /\ runs'[k].done

\* The displayed error names the file
ErrorNames(shown, name) == shown # << >> /\ shown[1].file = name

\* C26: in a batch import a failing file does not keep the others out: when
\* the batch ends the history contains every roster of the batch that parsed,
\* and the displayed error names each file of the batch that failed.
C26_BatchImportsTheRest ==
  [][\A k \in 1..MaxFiles :
       BatchEnds(k) =>
         /\ \A i \in 1..Len(runs'[k].rostersToAdd) :
               runs'[k].rostersToAdd[i] \in Range(historicalRosters')
         /\ \A j \in 1..Len(runs'[k].failed) :
               ErrorNames(appError', runs'[k].failed[j])]_vars

\* C27: every invocation of handleFilesProcessing sets isLoading and clears
\* the error at its start, and in the end is through with its files, at
\* which step it resets isLoading, however many of the files failed.
C27_LoadingResets ==
  /\ [][Len(runs') > Len(runs) => isLoading' = TRUE /\ appError' = << >>]_vars
  /\ [][\A k \in 1..MaxFiles : BatchEnds(k) => isLoading' = FALSE]_vars
  /\ \A k \in 1..MaxFiles :
        (Len(runs) >= k) ~> (Len(runs) >= k /\ runs[k].done)

\* An invocation is over of which one file failed and one was imported
C27_Witness ==
  \E k \in 1..Len(runs) :
     /\ runs[k].done /\ runs[k].failed # << >> /\ runs[k].rostersToAdd # << >>
     /\ isLoading = FALSE

\* The day a date text YYYY-MM-DD names, as the number YYYYMMDD
dayNumber(date) == digitsValue(SelectSeq(date, IsDigit))

SameDateAndAssignments(a, b) == a.date = b.date /\ a.assignments = b.assignments

\* Every roster of the batch that ends is in the history already
ReImport(k) ==
  /\ BatchEnds(k) /\ runs'[k].rostersToAdd # << >>
  /\ \A i \in 1..Len(runs'[k].rostersToAdd) :
        \E j \in 1..Len(historicalRosters) :
           SameDateAndAssignments(runs'[k].rostersToAdd[i], historicalRosters[j])

\* C28: from the empty history on, historicalRosters is sorted by date, the
\* latest first, no two of its rosters have the same date and the same
\* assignments, and a batch of rosters that are all present leaves the
\* number of stored rosters as it is.
C28_HistorySortedUnique ==
  /\ [](\A i, j \in 1..Len(historicalRosters) :
          i < j =>
            /\ dayNumber(historicalRosters[i].date) >= dayNumber(historicalRosters[j].date)
            /\ ~SameDateAndAssignments(historicalRosters[i], historicalRosters[j]))
  /\ [][\A k \in 1..MaxFiles :
          ReImport(k) => Len(historicalRosters') = Len(historicalRosters)]_vars

\* A batch brought the earlier roster first and the history has it last
C28_Witness ==
  /\ Len(historicalRosters) = 2
  /\ \E k \in 1..Len(runs) :
        /\ runs[k].done /\ Len(runs[k].rostersToAdd) = 2
        /\ runs[k].rostersToAdd[1] = historicalRosters[2]
        /\ dayNumber(historicalRosters[1].date) > dayNumber(historicalRosters[2].date)

----------------------------------------------------------------------------
(* Properties of the edit handlers of components/AssignmentGrid.tsx        *)

\* The step is an edit: a new roster has been handed to onRosterChange
Edited == liveRoster # 0 /\ liveRoster' # liveRoster

\* The roster with nothing but the field of the edit changed
WithEdit(roster, e) ==
  IF e.handler = "handleCellChange"
  THEN [roster EXCEPT !.assignments[e.rowIndex][e.field] = e.newValue]
  ELSE IF e.field = "chargeNurses.day"
  THEN [roster EXCEPT !.chargeNurses.day = e.newValue]
  ELSE IF e.field = "chargeNurses.night"
  THEN [roster EXCEPT !.chargeNurses.night = e.newValue]
  ELSE IF e.field = "floats.day" THEN [roster EXCEPT !.floats.day = e.newValue]
  ELSE IF e.field = "floats.night" THEN [roster EXCEPT !.floats.night = e.newValue]
  ELSE IF e.field = "respiratory" /\ e.handler = "handleFieldChange" THEN roster
  ELSE [roster EXCEPT ![e.field] = e.newValue]

\* C29: every edit handler of the grid hands onRosterChange a new roster that
\* differs from the one received in the edited field only, and the roster
\* received is after the edit what it was before it, chargeNurses, floats and
\* assignments included.
C29_EditLeavesReceivedRoster ==
  [][Edited =>
       /\ valueOf(heap', liveRoster') =
            WithEdit(valueOf(heap, liveRoster), edit'[Len(edit')])
       /\ valueOf(heap', liveRoster) = valueOf(heap, liveRoster)]_vars

----------------------------------------------------------------------------
(* Properties of EditableCell                                              *)

\* The step is the key Escape pressed in the cell
EscapePressed == focused /\ keyed' = "Escape" /\ ~focused'

\* The step calls onSave
Saved == Len(onSaveCalls') > Len(onSaveCalls)

\* C30: Escape after typing discards the edit: the cell shows its initial
\* value again and the blur that Escape brings does not hand the typed text
\* to onSave; and onSave is called only with a value that differs from the
\* initial value.
C30_EscapeDiscardsEdit ==
  [][/\ EscapePressed => value' = initialValue /\ ~Saved
     /\ Saved => /\ value # initialValue
                 /\ onSaveCalls'[Len(onSaveCalls')] = value]_vars

====
